---- MODULE Spec2Model ----
(***************************************************************************)
(* Model of the graph builder and of the genre pipeline of                 *)
(* youtube-music-mapper (backend/server.py, backend/spotify_client.py,     *)
(* backend/assign_genres.py).                                              *)
(*                                                                         *)
(* Strings are sequences of code points ("A" = <<65>>), so that lower(),   *)
(* `in` (substring containment) and sorted() are computed the way Python   *)
(* computes them.  A Python dict is a sequence of [key, val] entries in    *)
(* insertion order, which is the order the code iterates it in.            *)
(***************************************************************************)
EXTENDS Integers, Sequences, FiniteSets, TLC

VARIABLES
    rows,        \* the observations handed to a build: CSV rows / Spotify tracks
    bpc,         \* position of the build request: "input", "built", "refused", "graph", "idle"
    builder,     \* which builder produced the graph: "none", "songs", "spotify"
    songs,       \* the parsed song list the builder worked on
    max_songs,   \* the builder's local max_songs
    graph,       \* the graph returned: [nodes, links, stats]
    status,      \* the HTTP status of the answer; 0: the builder was called directly
    genre_map,   \* the contents of genre_map.json ({} when the file is missing)
    lastfm,      \* Last.fm: whether LASTFM_API_KEY is set, and its reply per artist
    ytmusic,     \* /api/graph: graph_data.json, music_data.json, the YouTube Music client
    spotify_tokens, \* server.py's dict session id -> token data
    uuid_count,  \* how many session ids uuid.uuid4() has produced
    answer,      \* the last Spotify request answered: endpoint, cookie sent, verdict
    spotify_api, \* the answers of GET /me/tracks, by request
    fetch,       \* get_all_saved_tracks: its caller, position and locals
    music_data,  \* the contents of music_data.json: the liked songs
    runs,        \* the runs of a pass on the snapshot file: function, position, data
    graph_data,  \* the contents of the snapshot file graph_data.json
    gpc,         \* position of the genre script: "assign", "infer", "fallback", "done", "idle"
    pass,        \* inference passes done in this run of the script
    run,         \* the run of the script on the snapshot, from 1
    loaded,      \* the snapshot as the last function of the script read it
    changed      \* the `changed` count the last function of the script reported

bvars == <<rows, bpc, builder, songs, max_songs, graph, status, genre_map, lastfm, ytmusic>>

gvars == <<graph_data, gpc, pass, run, loaded, changed>>

svars == <<spotify_tokens, uuid_count, answer, spotify_api, fetch>>

rvars == <<music_data, runs>>

vars == <<rows, bpc, builder, songs, max_songs, graph, status, genre_map, lastfm, ytmusic,
          spotify_tokens, uuid_count, answer, spotify_api, fetch, music_data, runs,
          graph_data, gpc, pass, run, loaded, changed>>

----------------------------------------------------------------------------
(* Bounds of the model *)

\* longest observation list a build is given
MaxSongs == 3

\* longest observation list a build is given when Last.fm and the genre map vary
MaxEnrichSongs == 2

----------------------------------------------------------------------------
(* Python strings *)

\* str.lower() on one code point (ASCII letters)
lower_char(c) == IF c >= 65 /\ c <= 90 THEN c + 32 ELSE c

\* str.lower()
lower(s) == [i \in 1..Len(s) |-> lower_char(s[i])]

\* Python `sub in s` on strings: substring containment ('' is in every string)
contains(sub, s) ==
    \E i \in 0..(Len(s) - Len(sub)) : SubSeq(s, i + 1, i + Len(sub)) = sub

\* Python `s < t` on strings: lexicographic by code point
str_lt(s, t) ==
    \E i \in 1..Len(t) :
        /\ \A j \in 1..(i - 1) : j <= Len(s) /\ s[j] = t[j]
        /\ (i > Len(s) \/ s[i] < t[i])

\* the first index of 1..n that satisfies Test, 0 when none does
first_index(n, Test(_)) ==
    IF \E i \in 1..n : Test(i)
    THEN CHOOSE i \in 1..n : Test(i) /\ \A j \in 1..(i - 1) : ~Test(j)
    ELSE 0

\* Python `x in list`
in_list(x, l) == \E i \in 1..Len(l) : l[i] = x

----------------------------------------------------------------------------
(* Python dicts, insertion ordered *)

dict_has(d, k) == \E i \in 1..Len(d) : d[i].key = k

dict_get(d, k, default) ==
    IF dict_has(d, k) THEN d[CHOOSE i \in 1..Len(d) : d[i].key = k].val
    ELSE default

dict_set(d, k, v) ==
    IF dict_has(d, k)
    THEN [i \in 1..Len(d) |-> IF d[i].key = k THEN [key |-> k, val |-> v] ELSE d[i]]
    ELSE Append(d, [key |-> k, val |-> v])

\* del d[k]
dict_del(d, k) == SelectSeq(d, LAMBDA e : e.key # k)

\* d[k] = d.get(k, 0) + 1, done n times (n = 0 leaves d without the key)
dict_add(d, k, n) == IF n = 0 THEN d ELSE dict_set(d, k, dict_get(d, k, 0) + n)

----------------------------------------------------------------------------
(* The observations *)

\* artist names and titles of the model ("A", "B", "Ab"; "x", "y", "z", "Bx", "AB")
nA == <<65>>
nB == <<66>>
nAb == <<65, 98>>
tx == <<120>>
ty == <<121>>
tz == <<122>>
tBx == <<66, 120>>
tAB == <<65, 66>>
empty_str == <<>>

\* 'Unknown Artist'
UnknownArtist == <<85, 110, 107, 110, 111, 119, 110, 32, 65, 114, 116, 105, 115, 116>>

Row(t, as) == [title |-> t, artists |-> as]

\* The rows a list of observations is drawn from.  `artists` are the credited
\* artists in column order (Artist Name 1..5 of a Takeout CSV row, the artists
\* of a Spotify track): the primary artist comes first.
RowUniverse ==
    { Row(tx, <<nA>>),
      Row(ty, <<nB>>),
      Row(tx, <<nA, nB>>),
      Row(ty, <<nB, nA>>),
      Row(tz, <<nA, nB, nAb>>),
      Row(ty, <<nAb>>),
      Row(tBx, <<nA>>),
      Row(tAB, <<nB>>),
      Row(tx, <<nA, nA>>),
      Row(tx, <<nA, nB, nB>>),
      Row(ty, <<>>),
      Row(empty_str, <<nB>>) }

RowLists == UNION { [1..n -> RowUniverse] : n \in 0..MaxSongs }

----------------------------------------------------------------------------
(* Parsers: rows -> songs {title, artist, all_artists} *)

\* parse_csv_file: a row is kept when it has a title and an Artist Name 1;
\* all_artists is [artist] followed by the non-empty extra artist columns.
RECURSIVE parse_csv_file(_)
parse_csv_file(rs) ==
    IF rs = <<>> THEN <<>>
    ELSE LET row == Head(rs)
             title == row.title
             artist == IF row.artists # <<>> THEN row.artists[1] ELSE empty_str
             all_artists == row.artists
         IN  IF title # empty_str /\ artist # empty_str
             THEN <<[title |-> title, artist |-> artist, all_artists |-> all_artists]>>
                      \o parse_csv_file(Tail(rs))
             ELSE parse_csv_file(Tail(rs))

\* parse_spotify_tracks: every track gives a song; the primary artist is the
\* first credited artist, 'Unknown Artist' when the track credits none.
parse_spotify_tracks(tracks) ==
    [i \in 1..Len(tracks) |->
        LET track == tracks[i]
            artists == track.artists
        IN  [title |-> track.title,
             artist |-> IF artists # <<>> THEN artists[1] ELSE UnknownArtist,
             all_artists |-> artists]]

----------------------------------------------------------------------------
(* The genre of a node at build time: genre_map.json, then Last.fm *)

\* None, and every other value Python takes for false in `if not genre` and
\* `x or 'Other'` (the empty string)
None == <<>>

\* 'Other'
gOther == <<79, 116, 104, 101, 114>>

\* str.upper() on one code point (ASCII letters)
upper_char(c) == IF c >= 97 /\ c <= 122 THEN c - 32 ELSE c

\* a cased character (ASCII letter)
is_cased(c) == (c >= 65 /\ c <= 90) \/ (c >= 97 /\ c <= 122)

\* str.title(): a letter that follows no letter is upper-cased, the others are
\* lower-cased
title_case(s) ==
    [i \in 1..Len(s) |->
        IF i > 1 /\ is_cased(s[i - 1]) THEN lower_char(s[i]) ELSE upper_char(s[i])]

\* s.startswith(prefix)
starts_with(s, prefix) == Len(s) >= Len(prefix) /\ SubSeq(s, 1, Len(prefix)) = prefix

\* load_genre_map(): the contents of genre_map.json as read at the call
load_genre_map == genre_map

\* tag_map of fetch_genre_from_lastfm, in the order of the dict
tag_map ==
    << [key |-> <<101, 108, 101, 99, 116, 114, 111, 110, 105, 99>>, val |-> <<69, 108, 101, 99, 116, 114, 111, 110, 105, 99>>],  \* electronic: Electronic
       [key |-> <<101, 100, 109>>, val |-> <<69, 108, 101, 99, 116, 114, 111, 110, 105, 99>>],  \* edm: Electronic
       [key |-> <<100, 117, 98, 115, 116, 101, 112>>, val |-> <<68, 117, 98, 115, 116, 101, 112, 47, 66, 97, 115, 115>>],  \* dubstep: Dubstep/Bass
       [key |-> <<98, 97, 115, 115>>, val |-> <<68, 117, 98, 115, 116, 101, 112, 47, 66, 97, 115, 115>>],  \* bass: Dubstep/Bass
       [key |-> <<104, 111, 117, 115, 101>>, val |-> <<72, 111, 117, 115, 101>>],  \* house: House
       [key |-> <<100, 101, 101, 112, 32, 104, 111, 117, 115, 101>>, val |-> <<72, 111, 117, 115, 101>>],  \* deep house: House
       [key |-> <<116, 101, 99, 104, 32, 104, 111, 117, 115, 101>>, val |-> <<84, 101, 99, 104, 32, 72, 111, 117, 115, 101>>],  \* tech house: Tech House
       [key |-> <<112, 114, 111, 103, 114, 101, 115, 115, 105, 118, 101, 32, 104, 111, 117, 115, 101>>, val |-> <<80, 114, 111, 103, 114, 101, 115, 115, 105, 118, 101, 32, 72, 111, 117, 115, 101>>],  \* progressive house: Progressive House
       [key |-> <<116, 114, 97, 110, 99, 101>>, val |-> <<84, 114, 97, 110, 99, 101>>],  \* trance: Trance
       [key |-> <<102, 117, 116, 117, 114, 101, 32, 98, 97, 115, 115>>, val |-> <<70, 117, 116, 117, 114, 101, 32, 66, 97, 115, 115>>],  \* future bass: Future Bass
       [key |-> <<116, 114, 97, 112>>, val |-> <<84, 114, 97, 112, 47, 66, 97, 115, 115>>],  \* trap: Trap/Bass
       [key |-> <<104, 105, 112, 45, 104, 111, 112>>, val |-> <<72, 105, 112, 45, 72, 111, 112>>],  \* hip-hop: Hip-Hop
       [key |-> <<104, 105, 112, 32, 104, 111, 112>>, val |-> <<72, 105, 112, 45, 72, 111, 112>>],  \* hip hop: Hip-Hop
       [key |-> <<114, 97, 112>>, val |-> <<72, 105, 112, 45, 72, 111, 112>>],  \* rap: Hip-Hop
       [key |-> <<112, 111, 112>>, val |-> <<80, 111, 112>>],  \* pop: Pop
       [key |-> <<114, 111, 99, 107>>, val |-> <<82, 111, 99, 107>>],  \* rock: Rock
       [key |-> <<105, 110, 100, 105, 101>>, val |-> <<69, 108, 101, 99, 116, 114, 111, 110, 105, 99, 47, 73, 110, 100, 105, 101>>],  \* indie: Electronic/Indie
       [key |-> <<107, 45, 112, 111, 112>>, val |-> <<75, 45, 80, 111, 112>>],  \* k-pop: K-Pop
       [key |-> <<107, 112, 111, 112>>, val |-> <<75, 45, 80, 111, 112>>],  \* kpop: K-Pop
       [key |-> <<100, 114, 117, 109, 32, 97, 110, 100, 32, 98, 97, 115, 115>>, val |-> <<68, 114, 117, 109, 32, 38, 32, 66, 97, 115, 115>>],  \* drum and bass: Drum & Bass
       [key |-> <<100, 110, 98>>, val |-> <<68, 114, 117, 109, 32, 38, 32, 66, 97, 115, 115>>],  \* dnb: Drum & Bass
       [key |-> <<106, 97, 122, 122>>, val |-> <<74, 97, 122, 122>>],  \* jazz: Jazz
       [key |-> <<102, 117, 110, 107>>, val |-> <<70, 117, 110, 107, 47, 69, 108, 101, 99, 116, 114, 111, 110, 105, 99>>],  \* funk: Funk/Electronic
       [key |-> <<114, 38, 98>>, val |-> <<80, 111, 112>>],  \* r&b: Pop
       [key |-> <<114, 110, 98>>, val |-> <<80, 111, 112>>]  \* rnb: Pop
    >>

\* the reply of Last.fm for an artist: a request for an artist the variable does
\* not list fails (timeout, connection error)
lastfm_reply(artist_name) ==
    dict_get(lastfm.replies, artist_name, [raises |-> TRUE, status_code |-> 0, tags |-> <<>>])

\* the first tag, lower-cased, that tag_map knows; 0 when none
RECURSIVE first_mapped_tag(_, _)
first_mapped_tag(tags, k) ==
    IF k > Len(tags) THEN 0
    ELSE IF dict_has(tag_map, lower(tags[k])) THEN k
    ELSE first_mapped_tag(tags, k + 1)

\* fetch_genre_from_lastfm(artist_name): None without API key, on an exception,
\* on a status other than 200 and without tags; the genre of the first mapped
\* tag; else the first tag, title-cased
fetch_genre_from_lastfm(artist_name) ==
    LET reply == lastfm_reply(artist_name)
        k == first_mapped_tag(reply.tags, 1)
    IN  IF ~lastfm.api_key THEN None
        ELSE IF reply.raises THEN None
        ELSE IF reply.status_code # 200 THEN None
        ELSE IF reply.tags = <<>> THEN None
        ELSE IF k # 0 THEN dict_get(tag_map, lower(reply.tags[k]), None)
        ELSE title_case(reply.tags[1])

\* get_artist_genre(artist_name, genre_map): direct match, case-insensitive
\* match, match without the prefix 'the '; None when none matches
get_artist_genre(artist_name, gm) ==
    LET lower_name == lower(artist_name)
        the == <<116, 104, 101, 32>>
        check_name == SubSeq(artist_name, 5, Len(artist_name))
        ci == first_index(Len(gm), LAMBDA i : lower(gm[i].key) = lower_name)
        np == first_index(Len(gm), LAMBDA i : lower(gm[i].key) = lower(check_name))
    IN  IF dict_has(gm, artist_name) THEN dict_get(gm, artist_name, None)
        ELSE IF ci # 0 THEN gm[ci].val
        ELSE IF starts_with(lower_name, the) /\ np # 0 THEN gm[np].val
        ELSE None

\* x, also when it is None
or_nothing(x) == x

\* x or 'Other'
or_other(x) == IF x = None THEN gOther ELSE x

\* the genre build_graph_from_songs gives an artist: from the map, or from
\* Last.fm, or 'Other'
node_genre(artist, gm) ==
    LET genre == get_artist_genre(artist, gm)
    IN  IF genre = None THEN or_other(fetch_genre_from_lastfm(artist)) ELSE genre

----------------------------------------------------------------------------
(* build_graph_from_songs *)

\* the cap of a node's songs list (artist_song_list[:20])
SONGS_LIMIT == 20

\* l[:n]
take(l, n) == SubSeq(l, 1, IF Len(l) < n THEN Len(l) ELSE n)

\* artist_songs: songs grouped by song['artist'], in first-seen order
RECURSIVE group_by_artist(_, _)
group_by_artist(ss, artist_songs) ==
    IF ss = <<>> THEN artist_songs
    ELSE LET song == Head(ss)
         IN  group_by_artist(Tail(ss),
                 dict_set(artist_songs, song.artist,
                          Append(dict_get(artist_songs, song.artist, <<>>), song)))

\* a build that normalises by the first group's size instead of the largest
first_group_size(artist_songs) ==
    IF artist_songs # <<>> THEN Len(artist_songs[1].val) ELSE 1

\* max(len(s) for s in artist_songs.values()) if artist_songs else 1
compute_max_songs(artist_songs) ==
    IF artist_songs # <<>>
    THEN CHOOSE m \in {Len(artist_songs[i].val) : i \in 1..Len(artist_songs)} :
             \A i \in 1..Len(artist_songs) : Len(artist_songs[i].val) <= m
    ELSE 1

\* importance = len(artist_song_list) / max_songs, kept as the quotient's terms
compute_importance(song_count, m) == [num |-> song_count, den |-> m]

\* one node per artist group
make_nodes(artist_songs, m) ==
    [i \in 1..Len(artist_songs) |->
        LET artist == artist_songs[i].key
            artist_song_list == artist_songs[i].val
        IN  [id |-> artist,
             name |-> artist,
             song_count |-> Len(artist_song_list),
             importance |-> compute_importance(Len(artist_song_list), m),
             genre |-> node_genre(artist, load_genre_map),
             songs |-> [k \in 1..Len(take(artist_song_list, SONGS_LIMIT)) |->
                           artist_song_list[k].title]]]

\* a pair kept in the order met, not sorted
unsorted_pair(a, b) == <<a, b>>

\* tuple(sorted([artist, other_artist]))
sorted_pair(a, b) == IF str_lt(b, a) THEN <<b, a>> ELSE <<a, b>>

\* a first pass that counts a credited artist whether or not it has songs
has_songs_unchecked(artist_songs, other_artist) == TRUE

\* `if other_artist in artist_songs`
has_songs(artist_songs, other_artist) == dict_has(artist_songs, other_artist)

\* for other_artist in all_artists[1:]: count the pair when the other has songs
RECURSIVE credit_others(_, _, _, _)
credit_others(artist, others, artist_songs, collab_counts) ==
    IF others = <<>> THEN collab_counts
    ELSE LET other_artist == Head(others)
             counted == IF has_songs(artist_songs, other_artist)
                        THEN dict_add(collab_counts, sorted_pair(artist, other_artist), 1)
                        ELSE collab_counts
         IN  credit_others(artist, Tail(others), artist_songs, counted)

\* for song in song_list: if len(all_artists) > 1: ...
RECURSIVE credit_songs(_, _, _, _)
credit_songs(artist, song_list, artist_songs, collab_counts) ==
    IF song_list = <<>> THEN collab_counts
    ELSE LET all_artists == Head(song_list).all_artists
             counted == IF Len(all_artists) > 1
                        THEN credit_others(artist, Tail(all_artists), artist_songs,
                                           collab_counts)
                        ELSE collab_counts
         IN  credit_songs(artist, Tail(song_list), artist_songs, counted)

\* first pass: explicit collaborations, for artist, song_list in artist_songs.items()
RECURSIVE first_pass(_, _, _)
first_pass(artist_songs, i, collab_counts) ==
    IF i > Len(artist_songs) THEN collab_counts
    ELSE first_pass(artist_songs, i + 1,
             credit_songs(artist_songs[i].key, artist_songs[i].val, artist_songs,
                          collab_counts))

\* a title match that forgets to lowercase the artist's name
title_mentions_case_sensitive(song_list, name) ==
    Cardinality({k \in 1..Len(song_list) : contains(name, lower(song_list[k].title))})

\* number of songs of song_list whose lowercased title contains the lowercased name
title_mentions(song_list, name) ==
    Cardinality({k \in 1..Len(song_list) :
                    contains(lower(name), lower(song_list[k].title))})

\* second pass, one pair i < j of artist_list
title_pair(artist_songs, i, j, collab_counts) ==
    LET artist1 == artist_songs[i].key
        artist2 == artist_songs[j].key
        pair == sorted_pair(artist1, artist2)
    IN  dict_add(dict_add(collab_counts, pair,
                          title_mentions(artist_songs[i].val, artist2)),
                 pair, title_mentions(artist_songs[j].val, artist1))

\* second pass: for i, artist1 / for j, artist2 / if i >= j: continue
RECURSIVE second_pass(_, _, _, _)
second_pass(artist_songs, i, j, collab_counts) ==
    IF i > Len(artist_songs) THEN collab_counts
    ELSE IF j > Len(artist_songs) THEN second_pass(artist_songs, i + 1, 1, collab_counts)
    ELSE IF i >= j THEN second_pass(artist_songs, i, j + 1, collab_counts)
    ELSE second_pass(artist_songs, i, j + 1,
                     title_pair(artist_songs, i, j, collab_counts))

\* links from collab_counts.items(), `if weight > 0`
RECURSIVE make_links(_)
make_links(collab_counts) ==
    IF collab_counts = <<>> THEN <<>>
    ELSE LET e == Head(collab_counts)
         IN  (IF e.val > 0
              THEN <<[source |-> e.key[1], target |-> e.key[2], weight |-> e.val,
                      type |-> "collaboration"]>>
              ELSE <<>>) \o make_links(Tail(collab_counts))

make_stats(nodes, links) ==
    [total_artists |-> Len(nodes), total_connections |-> Len(links),
     library_artists |-> Len(nodes), related_artists |-> 0]

build_graph_from_songs(ss) ==
    LET artist_songs == group_by_artist(ss, <<>>)
        m == compute_max_songs(artist_songs)
        nodes == make_nodes(artist_songs, m)
        collab_counts == second_pass(artist_songs, 1, 1,
                                     first_pass(artist_songs, 1, <<>>))
        links == make_links(collab_counts)
    IN  [nodes |-> nodes, links |-> links, stats |-> make_stats(nodes, links)]

----------------------------------------------------------------------------
(* build_graph_from_spotify *)

\* artist_data: per primary artist, its songs and the set of its collaborators
\* (the names after the first in all_artists of its songs)
RECURSIVE group_spotify(_, _)
group_spotify(ss, artist_data) ==
    IF ss = <<>> THEN artist_data
    ELSE LET song == Head(ss)
             old == dict_get(artist_data, song.artist,
                             [songs |-> <<>>, collaborators |-> {}])
             collabs == {song.all_artists[k] : k \in 2..Len(song.all_artists)}
         IN  group_spotify(Tail(ss),
                 dict_set(artist_data, song.artist,
                          [songs |-> Append(old.songs, song),
                           collaborators |-> old.collaborators \cup collabs]))

\* max(len(d['songs']) for d in artist_data.values()) if artist_data else 1
spotify_max_songs(artist_data) ==
    IF artist_data # <<>>
    THEN CHOOSE m \in {Len(artist_data[i].val.songs) : i \in 1..Len(artist_data)} :
             \A i \in 1..Len(artist_data) : Len(artist_data[i].val.songs) <= m
    ELSE 1

spotify_nodes(artist_data, m) ==
    [i \in 1..Len(artist_data) |->
        LET artist == artist_data[i].key
            data == artist_data[i].val
            song_count == Len(data.songs)
        IN  [id |-> artist,
             name |-> artist,
             song_count |-> song_count,
             importance |-> compute_importance(song_count, m),
             songs |-> [k \in 1..Len(take(data.songs, SONGS_LIMIT)) |->
                           data.songs[k].title]]]

\* sum(1 for s in data['songs'] if collab in s.get('all_artists', []))
collab_count(data, collab) ==
    Cardinality({k \in 1..Len(data.songs) : in_list(collab, data.songs[k].all_artists)})

\* `if pair not in seen_pairs`
pair_is_new(pair, seen_pairs) == pair \notin seen_pairs

\* for collab in data['collaborators']: the set is iterated in the order `order`
\* lists its members.  acc = [links, seen_pairs].
RECURSIVE spotify_collabs(_, _, _, _, _)
spotify_collabs(artist, data, order, artist_data, acc) ==
    IF order = <<>> THEN acc
    ELSE LET collab == Head(order)
             pair == sorted_pair(artist, collab)
             next == IF /\ collab \in data.collaborators
                        /\ dict_has(artist_data, collab)
                        /\ pair_is_new(pair, acc.seen_pairs)
                     THEN [links |-> Append(acc.links,
                                       [source |-> artist, target |-> collab,
                                        weight |-> collab_count(data, collab),
                                        type |-> "collaboration"]),
                           seen_pairs |-> acc.seen_pairs \cup {pair}]
                     ELSE acc
         IN  spotify_collabs(artist, data, Tail(order), artist_data, next)

\* for artist, data in artist_data.items()
RECURSIVE spotify_links(_, _, _, _)
spotify_links(artist_data, i, order, acc) ==
    IF i > Len(artist_data) THEN acc
    ELSE spotify_links(artist_data, i + 1, order,
             spotify_collabs(artist_data[i].key, artist_data[i].val, order,
                             artist_data, acc))

\* `order`: the iteration order of Python's sets of names, which the language
\* leaves unspecified
build_graph_from_spotify(tracks, order) ==
    LET ss == parse_spotify_tracks(tracks)
        artist_data == group_spotify(ss, <<>>)
        m == spotify_max_songs(artist_data)
        nodes == spotify_nodes(artist_data, m)
        links == spotify_links(artist_data, 1, order,
                               [links |-> <<>>, seen_pairs |-> {}]).links
    IN  [nodes |-> nodes, links |-> links,
         stats |-> [total_artists |-> Len(nodes), total_connections |-> Len(links),
                    library_artists |-> Len(nodes), related_artists |-> 0,
                    total_songs |-> Len(ss)]]

\* the orders a set of names can be iterated in
SetOrders ==
    { <<nA, nB, nAb>>, <<nA, nAb, nB>>, <<nB, nA, nAb>>,
      <<nB, nAb, nA>>, <<nAb, nA, nB>>, <<nAb, nB, nA>> }

----------------------------------------------------------------------------
(* The genre tables of assign_genres.py *)

\* names of artists: 'Seven Lions', 'Excision', 'Subtronics', 'Skrillex', 'BTS', 'V',
\* 'seven lions', 'DJ Seven Lions Remix', 'q rap', 'Qzq', 'v', 'Skrillex trance'
nSevenLions == <<83, 101, 118, 101, 110, 32, 76, 105, 111, 110, 115>>
nExcision == <<69, 120, 99, 105, 115, 105, 111, 110>>
nSubtronics == <<83, 117, 98, 116, 114, 111, 110, 105, 99, 115>>
nSkrillex == <<83, 107, 114, 105, 108, 108, 101, 120>>
nBTS == <<66, 84, 83>>
nSevenLionsLower == <<115, 101, 118, 101, 110, 32, 108, 105, 111, 110, 115>>
nSevenLionsRemix == <<68, 74, 32, 83, 101, 118, 101, 110, 32, 76, 105, 111, 110, 115, 32, 82, 101, 109, 105, 120>>
nQRap == <<113, 32, 114, 97, 112>>
nQzq == <<81, 122, 113>>
nV == <<86>>
nVLower == <<118>>
nSkrillexTrance == <<83, 107, 114, 105, 108, 108, 101, 120, 32, 116, 114, 97, 110, 99, 101>>

\* ARTIST_GENRES, the entries for the names above, in the order of the dict
ARTIST_GENRES ==
    << [key |-> nSevenLions, val |-> "Melodic Bass"],
       [key |-> nExcision, val |-> "Dubstep/Bass"],
       [key |-> nSubtronics, val |-> "Dubstep/Bass"],
       [key |-> nSkrillex, val |-> "Dubstep/Bass"],
       [key |-> nBTS, val |-> "K-Pop"],
       [key |-> nV, val |-> "K-Pop"] >>

\* GENRE_PATTERNS: each pattern \b(w1|w2|...)\b as the set of the words it
\* matches (k-?pop is kpop or k-pop), with its genre, in the order of the list
GENRE_PATTERNS ==
    << [words |-> {<<100, 117, 98, 115, 116, 101, 112>>,
                   <<98, 97, 115, 115, 32, 109, 117, 115, 105, 99>>,
                   <<98, 114, 111, 115, 116, 101, 112>>},
        genre |-> "Dubstep/Bass"],
       [words |-> {<<109, 101, 108, 111, 100, 105, 99, 32, 100, 117, 98, 115, 116, 101, 112>>,
                   <<109, 101, 108, 111, 100, 105, 99, 32, 98, 97, 115, 115>>},
        genre |-> "Melodic Bass"],
       [words |-> {<<102, 117, 116, 117, 114, 101, 32, 98, 97, 115, 115>>},
        genre |-> "Future Bass"],
       [words |-> {<<100, 114, 117, 109, 32, 97, 110, 100, 32, 98, 97, 115, 115>>,
                   <<100, 110, 98>>,
                   <<100, 38, 98>>,
                   <<100, 114, 117, 109, 32, 38, 32, 98, 97, 115, 115>>},
        genre |-> "Drum & Bass"],
       [words |-> {<<112, 114, 111, 103, 114, 101, 115, 115, 105, 118, 101, 32, 104, 111, 117, 115, 101>>,
                   <<112, 114, 111, 103, 32, 104, 111, 117, 115, 101>>},
        genre |-> "Progressive House"],
       [words |-> {<<116, 101, 99, 104, 32, 104, 111, 117, 115, 101>>},
        genre |-> "Tech House"],
       [words |-> {<<100, 101, 101, 112, 32, 104, 111, 117, 115, 101>>},
        genre |-> "UK House"],
       [words |-> {<<116, 114, 97, 110, 99, 101>>,
                   <<112, 115, 121, 116, 114, 97, 110, 99, 101>>},
        genre |-> "Trance"],
       [words |-> {<<116, 114, 97, 112>>},
        genre |-> "Trap/Bass"],
       [words |-> {<<107, 112, 111, 112>>,
                   <<107, 45, 112, 111, 112>>,
                   <<107, 111, 114, 101, 97, 110, 32, 112, 111, 112>>},
        genre |-> "K-Pop"],
       [words |-> {<<104, 105, 112, 104, 111, 112>>,
                   <<104, 105, 112, 45, 104, 111, 112>>,
                   <<114, 97, 112>>},
        genre |-> "Hip-Hop"] >>

----------------------------------------------------------------------------
(* assign_genres *)

\* \w of a regular expression (ASCII): a letter, a digit or '_'
is_word_char(c) ==
    \/ (c >= 48 /\ c <= 57)
    \/ (c >= 65 /\ c <= 90)
    \/ (c >= 97 /\ c <= 122)
    \/ c = 95

\* \b between positions pos and pos + 1 of s (pos = 0: before the first character)
word_boundary(s, pos) ==
    LET before == pos >= 1 /\ is_word_char(s[pos])
        after == pos + 1 <= Len(s) /\ is_word_char(s[pos + 1])
    IN  before # after

\* re.search(r'\b(w1|w2|...)\b', s)
re_search(words, s) ==
    \E w \in words : \E i \in 0..(Len(s) - Len(w)) :
        /\ SubSeq(s, i + 1, i + Len(w)) = w
        /\ word_boundary(s, i)
        /\ word_boundary(s, i + Len(w))

\* `artist.lower() == name_lower`
matches_ignoring_case(artist, name_lower) == lower(artist) = name_lower

\* `artist.lower() in name_lower or name_lower in artist.lower()`
matches_partially(artist, name_lower) ==
    contains(lower(artist), name_lower) \/ contains(name_lower, lower(artist))

\* a lookup that tries the looser stages first: pattern, partial, then the
\* case-insensitive and the exact match
lookup_genre_loosest_first(name) ==
    LET name_lower == lower(name)
        n == Len(ARTIST_GENRES)
        ci == first_index(n, LAMBDA i : matches_ignoring_case(ARTIST_GENRES[i].key, name_lower))
        pm == first_index(n, LAMBDA i : matches_partially(ARTIST_GENRES[i].key, name_lower))
        pt == first_index(Len(GENRE_PATTERNS),
                          LAMBDA i : re_search(GENRE_PATTERNS[i].words, name_lower))
    IN  IF pt # 0 THEN [stage |-> 4, genre |-> GENRE_PATTERNS[pt].genre]
        ELSE IF pm # 0 THEN [stage |-> 3, genre |-> ARTIST_GENRES[pm].val]
        ELSE IF ci # 0 THEN [stage |-> 2, genre |-> ARTIST_GENRES[ci].val]
        ELSE IF dict_has(ARTIST_GENRES, name)
        THEN [stage |-> 1, genre |-> dict_get(ARTIST_GENRES, name, "Other")]
        ELSE [stage |-> 0, genre |-> "Other"]

\* the stage of the lookup that decides a name: 1 exact, 2 case-insensitive,
\* 3 partial, 4 pattern, 0 none, with the genre it gives
lookup_genre(name) ==
    LET name_lower == lower(name)
        n == Len(ARTIST_GENRES)
        ci == first_index(n, LAMBDA i : matches_ignoring_case(ARTIST_GENRES[i].key, name_lower))
        pm == first_index(n, LAMBDA i : matches_partially(ARTIST_GENRES[i].key, name_lower))
        pt == first_index(Len(GENRE_PATTERNS),
                          LAMBDA i : re_search(GENRE_PATTERNS[i].words, name_lower))
    IN  IF dict_has(ARTIST_GENRES, name)
        THEN [stage |-> 1, genre |-> dict_get(ARTIST_GENRES, name, "Other")]
        ELSE IF ci # 0 THEN [stage |-> 2, genre |-> ARTIST_GENRES[ci].val]
        ELSE IF pm # 0 THEN [stage |-> 3, genre |-> ARTIST_GENRES[pm].val]
        ELSE IF pt # 0 THEN [stage |-> 4, genre |-> GENRE_PATTERNS[pt].genre]
        ELSE [stage |-> 0, genre |-> "Other"]

\* the names the snapshot's nodes carry
NodeNames ==
    {nSevenLions, nExcision, nSubtronics, nSkrillex, nBTS, nSevenLionsLower,
     nSevenLionsRemix, nQRap, nQzq, nV, nVLower, nSkrillexTrance}

\* lookup_genre of every name, computed once
LookupOfName == [name \in NodeNames |-> lookup_genre(name)]

\* a loop body that resets a name no stage matches to 'Other'
assign_node_resetting(node) ==
    LET found == LookupOfName[node.name]
    IN  [node EXCEPT !.genre = found.genre]

\* the body of the loop over data['nodes']: the node after the lookup.  A name
\* no stage matches keeps its current genre.
assign_node(node) ==
    LET found == LookupOfName[node.name]
    IN  IF found.stage = 0 THEN node ELSE [node EXCEPT !.genre = found.genre]

\* whether the loop body counts the node in `changed`: stage 1 counts a node
\* whose genre differs, the later stages every node they match
assign_counts(node) ==
    LET found == LookupOfName[node.name]
    IN  IF found.stage = 1 THEN node.genre # found.genre ELSE found.stage # 0

\* assign_genres(graph_file) on the snapshot's contents: [data, changed]
assign_genres(d) ==
    [data |-> [d EXCEPT !.nodes = [i \in 1..Len(d.nodes) |-> assign_node(d.nodes[i])]],
     changed |-> Cardinality({i \in 1..Len(d.nodes) : assign_counts(d.nodes[i])})]

----------------------------------------------------------------------------
(* infer_genres_from_connections and assign_fallback_genre *)

\* GENRE_FAMILIES of infer_genres_from_connections: the genres of each family
GENRE_FAMILIES ==
    ("EDM" :> {"Melodic Bass", "Dubstep/Bass", "Future Bass", "Progressive House",
               "Trance", "Tech House", "UK House", "Bass House", "Electro House",
               "Trap/Bass", "Drum & Bass", "Pop/EDM", "Electronic/Indie",
               "Midtempo Bass", "Tropical House", "House", "Electro Soul", "Electronic"})
    @@ ("K-Pop" :> {"K-Pop"})
    @@ ("Hip-Hop" :> {"Hip-Hop", "R&B"})
    @@ ("Pop" :> {"Pop"})
    @@ ("Rock" :> {"Rock"})
    @@ ("Classical" :> {"Classical", "Cinematic"})

\* `top_count >= 3`
MIN_TOP_COUNT == 3

\* range(3): the inference passes of one run of the pipeline
INFER_PASSES == 3

\* min_connections=1: the argument the pipeline passes to every inference pass
MAIN_MIN_CONNECTIONS == 1

\* an adjacency map that lists a neighbour once per unit of the link's weight
RECURSIVE build_connections_weighted(_, _)
build_connections_weighted(links, connections) ==
    IF links = <<>> THEN connections
    ELSE LET l == Head(links)
             w == IF "weight" \in DOMAIN l THEN l.weight ELSE 1
             c1 == dict_set(connections, l.source,
                       dict_get(connections, l.source, <<>>) \o [k \in 1..w |-> l.target])
             c2 == dict_set(c1, l.target,
                       dict_get(c1, l.target, <<>>) \o [k \in 1..w |-> l.source])
         IN  build_connections_weighted(Tail(links), c2)

\* the adjacency map: connections[src].append(tgt); connections[tgt].append(src)
RECURSIVE build_connections(_, _)
build_connections(links, connections) ==
    IF links = <<>> THEN connections
    ELSE LET src == Head(links).source
             tgt == Head(links).target
             c1 == IF dict_has(connections, src) THEN connections
                   ELSE dict_set(connections, src, <<>>)
             c2 == IF dict_has(c1, tgt) THEN c1 ELSE dict_set(c1, tgt, <<>>)
             c3 == dict_set(c2, src, Append(dict_get(c2, src, <<>>), tgt))
             c4 == dict_set(c3, tgt, Append(dict_get(c3, tgt, <<>>), src))
         IN  build_connections(Tail(links), c4)

\* node_map = {n['id']: n for n in data['nodes']}: `conn_id in node_map`
in_node_map(nodes, id) == \E i \in 1..Len(nodes) : nodes[i].id = id

\* node_map[conn_id].get('genre', 'Other'): the node that node_map holds for an id
\* is the last one of the list with that id, and it is the list's own object, so
\* its genre is the current one
node_map_genre(nodes, id) ==
    nodes[CHOOSE i \in 1..Len(nodes) :
              nodes[i].id = id /\ \A j \in (i + 1)..Len(nodes) : nodes[j].id # id].genre

\* genre_counts over connections[node_id], the labels that are not 'Other'
RECURSIVE count_genres(_, _, _)
count_genres(conns, nodes, genre_counts) ==
    IF conns = <<>> THEN genre_counts
    ELSE LET conn_id == Head(conns)
             conn_genre == IF in_node_map(nodes, conn_id)
                           THEN node_map_genre(nodes, conn_id) ELSE "Other"
         IN  count_genres(Tail(conns), nodes,
                 IF conn_genre # "Other" THEN dict_add(genre_counts, conn_genre, 1)
                 ELSE genre_counts)

\* max(genre_counts.items(), key=lambda x: x[1]): the first entry with the largest count
top_entry(genre_counts) ==
    genre_counts[first_index(Len(genre_counts),
                     LAMBDA i : \A j \in 1..Len(genre_counts) :
                                    genre_counts[j].val <= genre_counts[i].val)]

RECURSIVE sum_counts(_)
sum_counts(genre_counts) ==
    IF genre_counts = <<>> THEN 0
    ELSE Head(genre_counts).val + sum_counts(Tail(genre_counts))

\* a loop that takes every node for a target
is_target_always(node) == TRUE

\* `if node.get('genre') != 'Other': continue`
is_target(node) == node.genre = "Other"

\* a test that looks at the count alone, whatever the share
strong_majority_count_only(top_count, total_conns, min_connections) ==
    top_count >= MIN_TOP_COUNT

\* a test that takes a share of exactly 0.6 for a majority
strong_majority_inclusive(top_count, total_conns, min_connections) ==
    top_count >= MIN_TOP_COUNT /\ 5 * top_count >= 3 * total_conns

\* `top_count >= 3 and top_count / total_conns > 0.6` (0.6 = 3/5); the
\* min_connections argument is not read
strong_majority(top_count, total_conns, min_connections) ==
    top_count >= MIN_TOP_COUNT /\ 5 * top_count > 3 * total_conns

\* a loop body that does not skip a 'K-Pop' majority
inferred_genre_with_kpop(nodes, i, connections, min_connections) ==
    LET node == nodes[i]
        genre_counts == count_genres(dict_get(connections, node.id, <<>>), nodes, <<>>)
        top == top_entry(genre_counts)
    IN  IF ~is_target(node) THEN node.genre
        ELSE IF ~dict_has(connections, node.id) THEN node.genre
        ELSE IF genre_counts = <<>> THEN node.genre
        ELSE IF strong_majority(top.val, sum_counts(genre_counts), min_connections)
             THEN top.key
        ELSE node.genre

\* the genre the loop body gives node i: its own, or the majority label of its
\* connections
inferred_genre(nodes, i, connections, min_connections) ==
    LET node == nodes[i]
        genre_counts == count_genres(dict_get(connections, node.id, <<>>), nodes, <<>>)
        top == top_entry(genre_counts)
    IN  IF ~is_target(node) THEN node.genre
        ELSE IF ~dict_has(connections, node.id) THEN node.genre
        ELSE IF genre_counts = <<>> THEN node.genre
        ELSE IF top.key = "K-Pop" THEN node.genre
        ELSE IF strong_majority(top.val, sum_counts(genre_counts), min_connections)
             THEN top.key
        ELSE node.genre

\* the loop over data['nodes'], which writes node['genre'] in place: the nodes
\* after it are judged on the labels written so far
RECURSIVE infer_loop(_, _, _, _)
infer_loop(nodes, i, connections, min_connections) ==
    IF i > Len(nodes) THEN nodes
    ELSE infer_loop([nodes EXCEPT ![i].genre =
                         inferred_genre(nodes, i, connections, min_connections)],
                    i + 1, connections, min_connections)

\* the number of nodes whose genre differs between two node lists
count_changed(old, new) == Cardinality({i \in 1..Len(old) : old[i].genre # new[i].genre})

\* a pass that computes the labels and does not write them to the snapshot
infer_without_saving(d, min_connections) ==
    LET connections == build_connections(d.links, <<>>)
        nodes == infer_loop(d.nodes, 1, connections, min_connections)
    IN  [data |-> d, changed |-> count_changed(d.nodes, nodes)]

\* infer_genres_from_connections(graph_file, min_connections): [data, changed]
infer_genres_from_connections(d, min_connections) ==
    LET connections == build_connections(d.links, <<>>)
        nodes == infer_loop(d.nodes, 1, connections, min_connections)
    IN  [data |-> [d EXCEPT !.nodes = nodes], changed |-> count_changed(d.nodes, nodes)]

\* edm_genres of assign_fallback_genre
edm_genres ==
    {"Melodic Bass", "Dubstep/Bass", "Future Bass", "Progressive House", "Trance",
     "Tech House", "UK House", "Bass House", "Electro House", "Trap/Bass",
     "Drum & Bass", "Pop/EDM", "Electronic/Indie", "Midtempo Bass", "Tropical House",
     "House"}

\* has_edm_connection: some connection in node_map has a genre of edm_genres
has_edm_connection(conns, nodes) ==
    \E k \in 1..Len(conns) :
        in_node_map(nodes, conns[k]) /\ node_map_genre(nodes, conns[k]) \in edm_genres

\* the genre the fallback loop gives node i
fallback_genre(nodes, i, connections) ==
    LET node == nodes[i]
    IN  IF node.genre # "Other" THEN node.genre
        ELSE IF dict_has(connections, node.id)
                /\ has_edm_connection(dict_get(connections, node.id, <<>>), nodes)
             THEN "Electronic"
        ELSE node.genre

RECURSIVE fallback_loop(_, _, _)
fallback_loop(nodes, i, connections) ==
    IF i > Len(nodes) THEN nodes
    ELSE fallback_loop([nodes EXCEPT ![i].genre = fallback_genre(nodes, i, connections)],
                       i + 1, connections)

\* assign_fallback_genre(graph_file): [data, changed]
assign_fallback_genre(d) ==
    LET connections == build_connections(d.links, <<>>)
        nodes == fallback_loop(d.nodes, 1, connections)
    IN  [data |-> [d EXCEPT !.nodes = nodes], changed |-> count_changed(d.nodes, nodes)]

----------------------------------------------------------------------------
(* parse_json_file *)

\* ', '
comma_space == <<44, 32>>

\* ', '.join(artists)
RECURSIVE join(_)
join(artists) ==
    IF artists = <<>> THEN empty_str
    ELSE IF Len(artists) = 1 THEN artists[1]
    ELSE artists[1] \o comma_space \o join(Tail(artists))

\* The items of an uploaded JSON document are written as rows: the item has the
\* key 'title' when the row's title is not empty, the key 'artist' (a string)
\* when the row credits one artist, the key 'artists' (a list) when it credits
\* more, and neither when it credits none.
\* item.get('artist', item.get('artists', default)), a list joined with ', '
item_artist(row, default) ==
    IF Len(row.artists) = 0 THEN default
    ELSE IF Len(row.artists) = 1 THEN row.artists[1]
    ELSE join(row.artists)

\* song.get('artist', 'Unknown Artist')
song_artist(row) ==
    IF Len(row.artists) = 1 THEN row.artists[1] ELSE UnknownArtist

\* a song as parse_json_file builds it: it has no key 'all_artists', which the
\* builder reads as []
json_song(title, artist) == [title |-> title, artist |-> artist, all_artists |-> <<>>]

\* the formats parse_json_file knows: a list of items, {'liked_songs': [...]},
\* {'items': [...]}
JsonFormats == {"list", "liked_songs", "items"}

\* parse_json_file(content) on a document of the given format
RECURSIVE parse_json_file(_, _)
parse_json_file(format, rs) ==
    IF rs = <<>> THEN <<>>
    ELSE LET item == Head(rs)
             rest == parse_json_file(format, Tail(rs))
         IN  CASE format = "list" ->
                      LET artist == item_artist(item, empty_str)
                      IN  IF item.title # empty_str
                          THEN <<json_song(item.title,
                                           IF artist = empty_str THEN UnknownArtist
                                           ELSE artist)>> \o rest
                          ELSE rest
               [] format = "liked_songs" ->
                      <<json_song(item.title, song_artist(item))>> \o rest
               [] format = "items" ->
                      IF item.title # empty_str
                      THEN <<json_song(item.title, item_artist(item, UnknownArtist))>> \o rest
                      ELSE rest

----------------------------------------------------------------------------
(* The build requests *)

EmptyGraph == [nodes |-> <<>>, links |-> <<>>, stats |-> <<>>]

\* genre_map.json is missing and LASTFM_API_KEY is not set (its default, '')
NoGenreMap == <<>>

NoLastfm == [api_key |-> FALSE, replies |-> <<>>]

\* a reply of Last.fm with status 200 and the given tags
Tags(tags) == [raises |-> FALSE, status_code |-> 200, tags |-> tags]

\* a reply of Last.fm with another status
Refused == [raises |-> FALSE, status_code |-> 404, tags |-> <<>>]

\* the genre maps and the Last.fm services a build runs with: none; a map that
\* knows A (under the key 'a') and a service with a mapped tag after an unknown
\* one; no map and a service that knows A by an unknown tag only, B by a mapped
\* tag, and refuses Ab
Environments ==
    { [genre_map |-> NoGenreMap, lastfm |-> NoLastfm],
      [genre_map |-> <<[key |-> <<97>>, val |-> <<84, 114, 97, 110, 99, 101>>]>>,
       lastfm |-> [api_key |-> TRUE,
                   replies |-> <<[key |-> nB,
                                  val |-> Tags(<<<<83, 101, 101, 110, 32, 76, 105, 118, 101>>, <<68, 85, 66, 83, 84, 69, 80>>>>)],
                                 [key |-> nAb, val |-> Tags(<<>>)]>>]],
      [genre_map |-> NoGenreMap,
       lastfm |-> [api_key |-> TRUE,
                   replies |-> <<[key |-> nA, val |-> Tags(<<<<112, 111, 115, 116, 32, 114, 111, 99, 107>>>>)],
                                 [key |-> nB, val |-> Tags(<<<<107, 45, 112, 111, 112>>>>)],
                                 [key |-> nAb, val |-> Refused]>>]] }

\* no file is there
NoFile == <<>>

\* neither graph_data.json nor music_data.json exists and the client is not
\* authenticated
NoYtMusic ==
    [graph_file |-> NoFile, music_data |-> NoFile, authenticate |-> "no", related |-> "ok"]

\* a graph a former export has written to graph_data.json
ExportedBefore ==
    [nodes |-> <<[id |-> nB, name |-> nB, in_library |-> TRUE, is_related |-> FALSE]>>,
     links |-> <<>>,
     stats |-> [total_artists |-> 1, total_connections |-> 0,
                library_artists |-> 1, related_artists |-> 0]]

\* graph_data.json: missing or written before; music_data.json: missing or the
\* library artists it lists; client.authenticate(): True, False or an exception;
\* add_related_artists: returns or raises
YtMusicCases ==
    [graph_file : {NoFile, ExportedBefore},
     music_data : {NoFile, <<nA, nB>>},
     authenticate : {"yes", "no", "raises"},
     related : {"ok", "raises"}]

\* get_all_saved_tracks is not running
NoFetch ==
    [pc |-> "idle", caller |-> "none", max_tracks |-> 0, offset |-> 0,
     all_tracks |-> <<>>, requested |-> <<>>]

\* no Spotify request has been answered
NoAnswer == [endpoint |-> "none", cookie |-> 0, authenticated |-> FALSE]

\* the server has just started: spotify_tokens = {}
SpotifyIdle ==
    /\ spotify_tokens = <<>>
    /\ uuid_count = 0
    /\ answer = NoAnswer
    /\ spotify_api = <<>>
    /\ fetch = NoFetch

\* no build request is in progress
BuildIdle ==
    /\ rows = <<>>
    /\ bpc = "idle"
    /\ builder = "none"
    /\ songs = <<>>
    /\ max_songs = 0
    /\ graph = EmptyGraph
    /\ status = 0
    /\ genre_map = NoGenreMap
    /\ lastfm = NoLastfm
    /\ ytmusic = NoYtMusic
    /\ SpotifyIdle

\* the names of the runs of a pass that can overlap
Runs == {"r1", "r2"}

\* a run that has not begun
NoRun == [pc |-> "idle", fn |-> "none", data |-> EmptyGraph, wrote |-> 0]

\* no pass runs on the snapshot file besides the genre script
RunsIdle ==
    /\ music_data = [liked_songs |-> <<>>]
    /\ runs = [r \in Runs |-> NoRun]

\* the genre script is not running, and no other pass on the snapshot file
GenreIdle ==
    /\ RunsIdle
    /\ graph_data = EmptyGraph
    /\ gpc = "idle"
    /\ pass = 0
    /\ run = 0
    /\ loaded = EmptyGraph
    /\ changed = 0

\* a request has come in and nothing is built yet
Requested ==
    /\ bpc = "input"
    /\ builder = "none"
    /\ songs = <<>>
    /\ max_songs = 0
    /\ graph = EmptyGraph
    /\ status = 0
    /\ SpotifyIdle
    /\ GenreIdle

BuildInit ==
    /\ rows \in RowLists
    /\ genre_map = NoGenreMap
    /\ lastfm = NoLastfm
    /\ ytmusic = NoYtMusic
    /\ Requested

\* a request under one of the environments; or a request for /api/graph under
\* one of the states of its files and of the YouTube Music client
EnrichInit ==
    /\ \/ /\ rows \in UNION { [1..n -> RowUniverse] : n \in 0..MaxEnrichSongs }
          /\ \E e \in Environments : genre_map = e.genre_map /\ lastfm = e.lastfm
          /\ ytmusic = NoYtMusic
       \/ /\ rows = <<>>
          /\ genre_map = NoGenreMap
          /\ lastfm = NoLastfm
          /\ ytmusic \in YtMusicCases
    /\ Requested

\* the handler answers 200 with the graph build_graph_from_songs returns
answer_with_graph(ss) ==
    /\ songs' = ss
    /\ max_songs' = compute_max_songs(group_by_artist(ss, <<>>))
    /\ graph' = build_graph_from_songs(ss)
    /\ bpc' = "built"
    /\ builder' = "songs"

\* the handler answers with an error and builds nothing
answer_error(ss, code) ==
    /\ songs' = ss
    /\ status' = code
    /\ bpc' = "refused"
    /\ UNCHANGED <<builder, max_songs, graph>>

\* /api/upload, the rest of the handler after the file is parsed: 400 when no
\* song was found, else the graph
upload_answer(ss) ==
    IF ss = <<>> THEN answer_error(ss, 400)
    ELSE answer_with_graph(ss) /\ status' = 200

\* /api/upload with a CSV file
UploadCsv ==
    /\ bpc = "input"
    /\ upload_answer(parse_csv_file(rows))
    /\ UNCHANGED <<rows, genre_map, lastfm, ytmusic, svars, rvars, gvars>>

\* /api/upload with a JSON file
UploadJson ==
    /\ bpc = "input"
    /\ \E format \in JsonFormats : upload_answer(parse_json_file(format, rows))
    /\ UNCHANGED <<rows, genre_map, lastfm, ytmusic, svars, rvars, gvars>>

\* build_graph_from_songs called on a parsed song list, the empty one included
BuildGraphFromSongs ==
    /\ bpc = "input"
    /\ answer_with_graph(parse_csv_file(rows))
    /\ status' = 0
    /\ UNCHANGED <<rows, genre_map, lastfm, ytmusic, svars, rvars, gvars>>

\* `Apply our genre mapping`: the genre the handler gives a node of the graph
\* build_graph_from_spotify returned (a node that has no genre yet)
spotify_node_genre(node, gm) ==
    LET genre == get_artist_genre(node.name, gm)
    IN  IF genre # None THEN genre ELSE or_other(fetch_genre_from_lastfm(node.name))

apply_genre_mapping(g) ==
    [g EXCEPT !.nodes =
        [i \in 1..Len(g.nodes) |->
            [id |-> g.nodes[i].id,
             name |-> g.nodes[i].name,
             song_count |-> g.nodes[i].song_count,
             importance |-> g.nodes[i].importance,
             genre |-> spotify_node_genre(g.nodes[i], load_genre_map),
             songs |-> g.nodes[i].songs]]]

\* /api/spotify/library for a session that is authenticated, on the saved
\* tracks fetched: 404 without tracks, else build_graph_from_spotify and the
\* genre mapping
SpotifyLibrary ==
    /\ bpc = "input"
    /\ IF rows = <<>>
       THEN answer_error(<<>>, 404)
       ELSE /\ \E order \in SetOrders :
                  graph' = apply_genre_mapping(build_graph_from_spotify(rows, order))
            /\ songs' = parse_spotify_tracks(rows)
            /\ max_songs' = spotify_max_songs(group_spotify(parse_spotify_tracks(rows), <<>>))
            /\ bpc' = "built"
            /\ builder' = "spotify"
            /\ status' = 200
    /\ UNCHANGED <<rows, genre_map, lastfm, ytmusic, svars, rvars, gvars>>

BuildNext == UploadCsv \/ UploadJson \/ BuildGraphFromSongs \/ SpotifyLibrary

SpecBuild == BuildInit /\ [][BuildNext]_vars

----------------------------------------------------------------------------
(* /api/graph *)

\* MusicGraphBuilder.load_from_json: one node per library artist
load_from_json(library) ==
    [i \in 1..Len(library) |->
        [id |-> library[i], name |-> library[i],
         in_library |-> TRUE, is_related |-> FALSE]]

\* 'R'
nRelated == <<82>>

\* MusicGraphBuilder.add_related_artists: the artists YouTube Music relates to
\* the library artists are added as nodes that are not in the library
add_related_artists(nodes) ==
    IF nodes = <<>> THEN nodes
    ELSE Append(nodes, [id |-> nRelated, name |-> nRelated,
                        in_library |-> FALSE, is_related |-> TRUE])

\* MusicGraphBuilder.export_for_visualization: the graph with its stats
export_for_visualization(nodes) ==
    LET library == {i \in 1..Len(nodes) : nodes[i].in_library}
    IN  [nodes |-> nodes,
         links |-> <<>>,
         stats |-> [total_artists |-> Len(nodes),
                    total_connections |-> 0,
                    library_artists |-> Cardinality(library),
                    related_artists |-> Len(nodes) - Cardinality(library)]]

\* the nodes of the builder of get_graph after its try block: the related
\* artists are added when client.authenticate() returns True and
\* add_related_artists returns; an exception of either is passed over
after_related(nodes) ==
    IF ytmusic.authenticate = "yes" /\ ytmusic.related = "ok"
    THEN add_related_artists(nodes)
    ELSE nodes

\* /api/graph: the snapshot when the file exists; else the graph built from
\* music_data.json, which is exported to the snapshot file; else 404
GetGraph ==
    /\ bpc = "input"
    /\ bpc' = "graph"
    /\ IF ytmusic.graph_file # NoFile
       THEN /\ graph' = ytmusic.graph_file
            /\ status' = 200
            /\ UNCHANGED ytmusic
       ELSE IF ytmusic.music_data # NoFile
       THEN LET g == export_for_visualization(after_related(load_from_json(ytmusic.music_data)))
            IN  /\ graph' = g
                /\ status' = 200
                /\ ytmusic' = [ytmusic EXCEPT !.graph_file = g]
       ELSE /\ status' = 404
            /\ UNCHANGED <<graph, ytmusic>>
    /\ UNCHANGED <<rows, builder, songs, max_songs, genre_map, lastfm, svars, rvars, gvars>>

EnrichNext == BuildNext \/ GetGraph

SpecEnrich == EnrichInit /\ [][EnrichNext]_vars

----------------------------------------------------------------------------
(* get_all_saved_tracks and the Spotify endpoints *)

\* most sessions the OAuth callback creates
MaxSessions == 2

\* limit of get_all_saved_tracks: the page size it asks for
PAGE_LIMIT == 50

\* max_tracks of the call in spotify_library
LIBRARY_MAX_TRACKS == 1000

\* max_tracks of get_all_saved_tracks when the caller gives none
DEFAULT_MAX_TRACKS == 2000

\* the values of max_tracks get_all_saved_tracks is called with directly
MaxTracksValues == {0, 75, DEFAULT_MAX_TRACKS}

\* answers of GET /me/tracks: a status other than 200; an exception of
\* requests.get (timeout, connection error); a page of items with or without
\* a 'next' link
ErrorPage == [kind |-> "error", items |-> <<>>, next |-> FALSE]

RaisingPage == [kind |-> "raises", items |-> <<>>, next |-> FALSE]

Page(items, next) == [kind |-> "ok", items |-> items, next |-> next]

\* what the Spotify account answers, request after request; the last answer is
\* repeated for every later request
SavedTracksCases ==
    { <<ErrorPage>>,
      <<RaisingPage>>,
      <<Page(<<>>, TRUE)>>,
      <<Page(<<Row(tx, <<nA>>)>>, FALSE)>>,
      <<Page(<<Row(tx, <<nA>>)>>, TRUE)>>,
      <<Page(<<Row(tx, <<nA, nB>>)>>, TRUE), ErrorPage>>,
      <<Page(<<Row(tx, <<nA>>)>>, TRUE), RaisingPage>>,
      <<Page(<<Row(tx, <<nA, nB>>), Row(ty, <<nB>>)>>, TRUE), Page(<<Row(ty, <<nAb>>)>>, FALSE)>>,
      <<Page(<<Row(ty, <<nB>>)>>, TRUE), Page(<<Row(tz, <<nA, nB, nAb>>)>>, TRUE),
        Page(<<>>, FALSE)>> }

\* the answer to the request with the given offset
page_response(offset) ==
    LET k == (offset \div PAGE_LIMIT) + 1
    IN  IF k <= Len(spotify_api) THEN spotify_api[k] ELSE spotify_api[Len(spotify_api)]

\* a step that asks for the same page again
next_offset_same_page(offset) == offset

\* offset += limit
next_offset(offset) == offset + PAGE_LIMIT

\* the call of get_all_saved_tracks up to its first test of the loop condition
start_fetch(caller, max_tracks) ==
    [pc |-> IF 0 < max_tracks THEN "loop" ELSE "returned",
     caller |-> caller,
     max_tracks |-> max_tracks,
     offset |-> 0,
     all_tracks |-> <<>>,
     requested |-> <<>>]

\* one iteration of `while offset < max_tracks`, up to the next test of the
\* loop condition
FetchPage ==
    /\ fetch.pc = "loop"
    /\ LET data == page_response(fetch.offset)
           asked == [fetch EXCEPT !.requested = Append(@, fetch.offset)]
           extended == [asked EXCEPT !.all_tracks = @ \o data.items]
           offset == next_offset(fetch.offset)
       IN  fetch' =
               IF data.kind = "raises" THEN [asked EXCEPT !.pc = "raised"]
               ELSE IF data.kind = "error" THEN [asked EXCEPT !.pc = "returned"]
               ELSE IF data.items = <<>> THEN [asked EXCEPT !.pc = "returned"]
               ELSE IF ~data.next THEN [extended EXCEPT !.pc = "returned"]
               ELSE [extended EXCEPT !.offset = offset,
                                     !.pc = IF offset < fetch.max_tracks THEN "loop"
                                            ELSE "returned"]
    /\ UNCHANGED <<spotify_tokens, uuid_count, answer, spotify_api, bvars, rvars, gvars>>

\* no request is being handled and no call is running
ServerFree == fetch.pc \in {"idle", "done"} \/ (fetch.caller = "direct" /\ fetch.pc # "loop")

\* get_all_saved_tracks called by itself
GetAllSavedTracks ==
    /\ ServerFree
    /\ uuid_count = 0
    /\ \E max_tracks \in MaxTracksValues : fetch' = start_fetch("direct", max_tracks)
    /\ UNCHANGED <<spotify_tokens, uuid_count, answer, spotify_api, bvars, rvars, gvars>>

\* the cookie values a request can carry: none (0) or a session id issued
Cookies == 0..uuid_count

\* /callback/spotify: with an error, without code or when the exchange of the
\* code fails nothing is stored; else the token is stored under a new session
\* id and the page sets the cookie spotify_session to it
SpotifyCallback ==
    /\ ServerFree
    /\ \E outcome \in {"error", "no code", "exchange failed", "token"} :
           IF outcome = "token"
           THEN /\ uuid_count < MaxSessions
                /\ uuid_count' = uuid_count + 1
                /\ spotify_tokens' = dict_set(spotify_tokens, uuid_count + 1, "token_data")
                /\ status' = 200
                /\ answer' = [endpoint |-> "callback", cookie |-> uuid_count + 1,
                              authenticated |-> TRUE]
           ELSE /\ status' = IF outcome = "no code" THEN 400 ELSE 200
                /\ answer' = [endpoint |-> "callback", cookie |-> 0, authenticated |-> FALSE]
                /\ UNCHANGED <<spotify_tokens, uuid_count>>
    /\ UNCHANGED <<rows, bpc, builder, songs, max_songs, graph, genre_map, lastfm, ytmusic,
                   spotify_api, fetch, rvars, gvars>>

\* the cookie the handler reads under the given name: the browser holds the
\* session id under the name spotify_session and no other cookie
request_cookie(name, sent) == IF name = "spotify_session" THEN sent ELSE 0

\* /api/spotify/status
SpotifyStatus ==
    /\ ServerFree
    /\ \E sent \in Cookies :
           LET session_id == request_cookie("session_id", sent)
           IN  answer' = [endpoint |-> "status", cookie |-> sent,
                          authenticated |-> dict_has(spotify_tokens, session_id)]
    /\ status' = 200
    /\ UNCHANGED <<rows, bpc, builder, songs, max_songs, graph, genre_map, lastfm, ytmusic,
                   spotify_tokens, uuid_count, spotify_api, fetch, rvars, gvars>>

\* /api/spotify/library up to the call of get_all_saved_tracks: 401 without a
\* session that has a token
LibraryRequest ==
    /\ ServerFree
    /\ \E sent \in Cookies :
           LET session_id == request_cookie("spotify_session", sent)
               known == session_id # 0 /\ dict_has(spotify_tokens, session_id)
           IN  /\ answer' = [endpoint |-> "library", cookie |-> sent, authenticated |-> known]
               /\ IF known
                  THEN /\ fetch' = start_fetch("library", LIBRARY_MAX_TRACKS)
                       /\ UNCHANGED status
                  ELSE /\ status' = 401
                       /\ fetch' = NoFetch
    /\ UNCHANGED <<rows, bpc, builder, songs, max_songs, graph, genre_map, lastfm, ytmusic,
                   spotify_tokens, uuid_count, spotify_api, rvars, gvars>>

\* /api/spotify/library from the return of get_all_saved_tracks on: 500 when
\* it raised, 404 without tracks, else the graph of the tracks with the genre
\* mapping applied
LibraryAnswer ==
    /\ fetch.caller = "library"
    /\ fetch.pc \in {"returned", "raised"}
    /\ fetch' = [fetch EXCEPT !.pc = "done"]
    /\ LET tracks == fetch.all_tracks
       IN  IF fetch.pc = "raised"
           THEN status' = 500 /\ UNCHANGED <<graph, songs, max_songs, builder>>
           ELSE IF tracks = <<>>
           THEN status' = 404 /\ UNCHANGED <<graph, songs, max_songs, builder>>
           ELSE /\ \E order \in SetOrders :
                      graph' = apply_genre_mapping(build_graph_from_spotify(tracks, order))
                /\ songs' = parse_spotify_tracks(tracks)
                /\ max_songs' = spotify_max_songs(group_spotify(parse_spotify_tracks(tracks), <<>>))
                /\ builder' = "spotify"
                /\ status' = 200
    /\ UNCHANGED <<rows, bpc, genre_map, lastfm, ytmusic,
                   spotify_tokens, uuid_count, answer, spotify_api, rvars, gvars>>

\* /api/spotify/disconnect
SpotifyDisconnect ==
    /\ ServerFree
    /\ \E sent \in Cookies :
           LET session_id == request_cookie("spotify_session", sent)
           IN  /\ spotify_tokens' = dict_del(spotify_tokens, session_id)
               /\ answer' = [endpoint |-> "disconnect", cookie |-> sent, authenticated |-> FALSE]
    /\ status' = 200
    /\ UNCHANGED <<rows, bpc, builder, songs, max_songs, graph, genre_map, lastfm, ytmusic,
                   uuid_count, spotify_api, fetch, rvars, gvars>>

SpotifyInit ==
    /\ rows = <<>>
    /\ bpc = "idle"
    /\ builder = "none"
    /\ songs = <<>>
    /\ max_songs = 0
    /\ graph = EmptyGraph
    /\ status = 0
    /\ genre_map = NoGenreMap
    /\ lastfm = NoLastfm
    /\ ytmusic = NoYtMusic
    /\ spotify_tokens = <<>>
    /\ uuid_count = 0
    /\ answer = NoAnswer
    /\ spotify_api \in SavedTracksCases
    /\ fetch = NoFetch
    /\ GenreIdle

SpotifyNext ==
    \/ GetAllSavedTracks
    \/ FetchPage
    \/ SpotifyCallback
    \/ SpotifyStatus
    \/ LibraryRequest
    \/ LibraryAnswer
    \/ SpotifyDisconnect

SpecSpotify == SpotifyInit /\ [][SpotifyNext]_vars

----------------------------------------------------------------------------
(* The genre pipeline on the snapshot file (the __main__ of assign_genres.py) *)

\* how many times the pipeline is run on the same snapshot
MaxRuns == 2

\* the ids of the snapshot's nodes, in the order of its node list
SnapshotIds == <<"n1", "n2", "n3", "n4", "n5">>

\* the genres a node of the snapshot carries before the pipeline runs
SnapshotGenres == {"Other", "Dubstep/Bass", "Trance", "K-Pop"}

\* the names of the snapshot's nodes: none known to the lookup; one per stage of
\* the lookup; an unknown artist among known ones; names that more than one
\* stage of the lookup matches, with different genres
SnapshotNames ==
    { <<nQzq, nQzq, nQzq, nQzq, nQzq>>,
      <<nSkrillex, nSevenLionsLower, nSevenLionsRemix, nQRap, nQzq>>,
      <<nQzq, nSkrillex, nExcision, nSubtronics, nBTS>>,
      <<nSevenLions, nV, nVLower, nSkrillexTrance, nQzq>> }

Link(s, t) == [source |-> s, target |-> t]

\* the link lists of the snapshot: none; a star; two hubs that are linked, the
\* first or the second with the more connections; a pair linked in both
\* directions; a self link and a link to an id that is no node; a node with
\* three neighbours and a node with two of them
SnapshotLinks ==
    { <<>>,
      <<Link("n1", "n2"), Link("n1", "n3"), Link("n1", "n4"), Link("n1", "n5")>>,
      <<Link("n1", "n2"), Link("n1", "n3"), Link("n1", "n4"), Link("n1", "n5"),
        Link("n5", "n2"), Link("n5", "n3")>>,
      <<Link("n1", "n2"), Link("n1", "n3"), Link("n1", "n5"),
        Link("n5", "n2"), Link("n5", "n3"), Link("n5", "n4")>>,
      <<Link("n1", "n2"), Link("n2", "n1"), Link("n1", "n3"), Link("n1", "n4"),
        Link("n1", "n5")>>,
      <<Link("n1", "n1"), Link("n1", "n2"), Link("n3", "n9"), Link("n3", "n4"),
        Link("n3", "n5"), Link("n2", "n3")>>,
      <<Link("n1", "n2"), Link("n1", "n3"), Link("n1", "n4"), Link("n5", "n3"),
        Link("n5", "n4")>> }

Snapshots ==
    { [nodes |-> [i \in 1..Len(SnapshotIds) |->
                     [id |-> SnapshotIds[i], name |-> names[i], genre |-> genres[i]]],
       links |-> links] :
        names \in SnapshotNames,
        genres \in [1..Len(SnapshotIds) -> SnapshotGenres],
        links \in SnapshotLinks }

GenreInit ==
    /\ graph_data \in Snapshots
    /\ gpc = "assign"
    /\ pass = 0
    /\ run = 1
    /\ loaded = graph_data
    /\ changed = 0
    /\ RunsIdle
    /\ BuildIdle

\* assign_genres("../frontend/graph_data.json")
AssignGenres ==
    /\ gpc = "assign"
    /\ LET r == assign_genres(graph_data)
       IN  graph_data' = r.data /\ changed' = r.changed
    /\ loaded' = graph_data
    /\ gpc' = "infer"
    /\ pass' = 0
    /\ UNCHANGED <<run, bvars, svars, rvars>>

\* for i in range(3): infer_genres_from_connections(..., min_connections=1)
InferPass ==
    /\ gpc = "infer"
    /\ LET r == infer_genres_from_connections(graph_data, MAIN_MIN_CONNECTIONS)
       IN  graph_data' = r.data /\ changed' = r.changed
    /\ loaded' = graph_data
    /\ pass' = pass + 1
    /\ gpc' = IF pass + 1 = INFER_PASSES THEN "fallback" ELSE "infer"
    /\ UNCHANGED <<run, bvars, svars, rvars>>

\* assign_fallback_genre("../frontend/graph_data.json")
Fallback ==
    /\ gpc = "fallback"
    /\ LET r == assign_fallback_genre(graph_data)
       IN  graph_data' = r.data /\ changed' = r.changed
    /\ loaded' = graph_data
    /\ gpc' = "done"
    /\ UNCHANGED <<pass, run, bvars, svars, rvars>>

\* the script is run again on the snapshot it wrote
Rerun ==
    /\ gpc = "done"
    /\ run < MaxRuns
    /\ gpc' = "assign"
    /\ run' = run + 1
    /\ pass' = 0
    /\ UNCHANGED <<graph_data, loaded, changed, bvars, svars, rvars>>

GenreNext == AssignGenres \/ InferPass \/ Fallback \/ Rerun

SpecGenre == GenreInit /\ [][GenreNext]_vars

----------------------------------------------------------------------------
(* rebuild_graph, and runs of a pass on the snapshot file that overlap *)

\* {'title', 'album', 'duration'} of a liked song
song_entry(song) == [title |-> song.title, album |-> song.album, duration |-> song.duration]

\* artist_songs[artist_id] of rebuild_graph: the liked songs that credit the
\* id, once per credit, in the order of music_data
RECURSIVE credits_of(_, _, _)
credits_of(song, artists, artist_id) ==
    IF artists = <<>> THEN <<>>
    ELSE (IF Head(artists) = artist_id /\ artist_id # "" THEN <<song_entry(song)>> ELSE <<>>)
             \o credits_of(song, Tail(artists), artist_id)

RECURSIVE artist_songs(_, _)
artist_songs(liked_songs, artist_id) ==
    IF liked_songs = <<>> THEN <<>>
    ELSE credits_of(Head(liked_songs), Head(liked_songs).artists, artist_id)
             \o artist_songs(Tail(liked_songs), artist_id)

\* a list that keeps the last song of every title
RECURSIVE unique_songs_last_wins(_, _)
unique_songs_last_wins(ss, seen_titles) ==
    IF ss = <<>> THEN <<>>
    ELSE IF \E k \in 2..Len(ss) : ss[k].title = Head(ss).title
         THEN unique_songs_last_wins(Tail(ss), seen_titles)
    ELSE <<Head(ss)>> \o unique_songs_last_wins(Tail(ss), seen_titles)

\* unique_songs: the first song of every title, in order
RECURSIVE unique_songs(_, _)
unique_songs(ss, seen_titles) ==
    IF ss = <<>> THEN <<>>
    ELSE IF Head(ss).title \in seen_titles THEN unique_songs(Tail(ss), seen_titles)
    ELSE <<Head(ss)>> \o unique_songs(Tail(ss), seen_titles \cup {Head(ss).title})

\* a node that takes the list from the music data whenever it differs in length
rebuilt_node_any_length(node, liked_songs) ==
    LET unique == unique_songs(artist_songs(liked_songs, node.id), {})
    IN  IF Len(unique) # Len(node.songs) THEN [node EXCEPT !.songs = unique] ELSE node

\* the loop body of rebuild_graph on one node: the songs are replaced when the
\* list from the music data is longer
rebuilt_node(node, liked_songs) ==
    LET unique == unique_songs(artist_songs(liked_songs, node.id), {})
    IN  IF Len(unique) > Len(node.songs) THEN [node EXCEPT !.songs = unique] ELSE node

\* rebuild_graph(): the snapshot it writes, from the snapshot and the music
\* data it read
rebuild_graph(d, md) ==
    [d EXCEPT !.nodes = [i \in 1..Len(d.nodes) |-> rebuilt_node(d.nodes[i], md.liked_songs)]]

LikedSong(title, album, artists) ==
    [title |-> title, album |-> album, duration |-> "3:00", artists |-> artists]

\* music_data.json: no liked song; songs of n1, n2 and n3 with a title that
\* comes twice, a credit without id and an artist credited twice; one song
\* of n1 and two of n4
MusicDataCases ==
    { [liked_songs |-> <<>>],
      [liked_songs |-> <<LikedSong("x", "a1", <<"n1">>),
                         LikedSong("y", "a1", <<"n1", "n2", "n2">>),
                         LikedSong("x", "a2", <<"n1", "">>),
                         LikedSong("z", "a1", <<"n3">>)>>],
      [liked_songs |-> <<LikedSong("x", "a2", <<"n1">>),
                         LikedSong("w", "a1", <<"n4">>),
                         LikedSong("z", "a1", <<"n4">>)>>] }

NodeSong(title) == [title |-> title, album |-> "a1", duration |-> "3:00"]

\* the songs the nodes of the snapshot hold before a rebuild
RunSongs ==
    <<<<NodeSong("x")>>, <<>>, <<NodeSong("x"), NodeSong("y")>>, <<NodeSong("z")>>>>

\* the genres of the nodes of the snapshot a run finds
RunGenres == {"Other", "Trance", "K-Pop"}

WLink(s, t, w) == [source |-> s, target |-> t, weight |-> w, type |-> "collaboration"]

\* the links of the snapshot: a star around n1; a chain; a star around n4 and
\* a link between two of its neighbours
RunLinks ==
    { <<WLink("n1", "n2", 1), WLink("n1", "n3", 2), WLink("n1", "n4", 5)>>,
      <<WLink("n1", "n2", 3), WLink("n2", "n3", 1), WLink("n3", "n4", 1)>>,
      <<WLink("n4", "n1", 1), WLink("n4", "n2", 1), WLink("n4", "n3", 4),
        WLink("n1", "n2", 2)>> }

\* graph_data.json as a builder and the genre pipeline left it
RunSnapshots ==
    { [nodes |-> [i \in 1..4 |->
                     [id |-> SnapshotIds[i], name |-> nQzq, genre |-> genres[i],
                      song_count |-> Len(RunSongs[i]),
                      importance |-> [num |-> Len(RunSongs[i]), den |-> 2],
                      songs |-> RunSongs[i]]],
       links |-> links,
       stats |-> [total_artists |-> 4, total_connections |-> Len(links),
                  library_artists |-> 4, related_artists |-> 0]] :
        genres \in [1..4 -> RunGenres],
        links \in RunLinks }

\* the passes that read graph_data.json, change the data and write it back
Passes == {"infer", "fallback", "rebuild"}

\* the data a pass writes, from the data it loaded
pass_data(fn, d, md) ==
    CASE fn = "infer" -> infer_genres_from_connections(d, MAIN_MIN_CONNECTIONS).data
      [] fn = "fallback" -> assign_fallback_genre(d).data
      [] fn = "rebuild" -> rebuild_graph(d, md)

\* a dump that keeps the labels the file holds where the data has 'Other'
dump_keeping_labels(file, data) ==
    [data EXCEPT !.nodes =
        [i \in 1..Len(data.nodes) |->
            IF data.nodes[i].genre = "Other" /\ i <= Len(file.nodes)
            THEN [data.nodes[i] EXCEPT !.genre = file.nodes[i].genre]
            ELSE data.nodes[i]]]

\* with open(graph_file, 'w') as f: json.dump(data, f): the file after it
dump(file, data) == data

\* with open(graph_file, 'r') as f: data = json.load(f)
ReadSnapshot(r) ==
    /\ runs[r].pc = "idle"
    /\ \E fn \in Passes :
           runs' = [runs EXCEPT ![r] = [pc |-> "read", fn |-> fn, data |-> graph_data,
                                        wrote |-> 0]]
    /\ UNCHANGED <<music_data, graph_data, gpc, pass, run, loaded, changed, bvars, svars>>

\* the pass on the data loaded, and the write of the file
WriteSnapshot(r) ==
    /\ runs[r].pc = "read"
    /\ LET data == pass_data(runs[r].fn, runs[r].data, music_data)
           earlier == Cardinality({q \in Runs : runs[q].wrote > 0})
       IN  /\ graph_data' = dump(graph_data, data)
           /\ runs' = [runs EXCEPT ![r] = [pc |-> "done", fn |-> runs[r].fn, data |-> data,
                                           wrote |-> earlier + 1]]
    /\ UNCHANGED <<music_data, gpc, pass, run, loaded, changed, bvars, svars>>

RunsInit ==
    /\ graph_data \in RunSnapshots
    /\ music_data \in MusicDataCases
    /\ runs = [r \in Runs |-> NoRun]
    /\ gpc = "idle"
    /\ pass = 0
    /\ run = 0
    /\ loaded = EmptyGraph
    /\ changed = 0
    /\ BuildIdle

RunsNext == \E r \in Runs : ReadSnapshot(r) \/ WriteSnapshot(r)

SpecRuns == RunsInit /\ [][RunsNext]_vars

----------------------------------------------------------------------------
(* Properties of the built graph *)

Built == bpc = "built"

LinkIdx == 1..Len(graph.links)

NodeIdx == 1..Len(graph.nodes)

NodeIdSet == {graph.nodes[i].id : i \in NodeIdx}

SongIdx == 1..Len(songs)

\* the links of the graph that join a and b, in either direction
LinksBetween(a, b) ==
    {i \in LinkIdx : {graph.links[i].source, graph.links[i].target} = {a, b}}

\* the weight the graph gives the unordered pair {a, b}: 0 when it has no link
PairWeight(a, b) ==
    IF LinksBetween(a, b) = {} THEN 0
    ELSE graph.links[CHOOSE i \in LinksBetween(a, b) : TRUE].weight

\* the songs of artist a, by position in the song list
SongsOf(a) == {k \in SongIdx : songs[k].artist = a}

\* the title evidence for {a, b}: a's songs whose title names b, and b's that name a
TextEvidence(a, b) ==
    Cardinality({k \in SongsOf(a) : contains(lower(b), lower(songs[k].title))})
    + Cardinality({k \in SongsOf(b) : contains(lower(a), lower(songs[k].title))})

\* the positions after the first of song k's all_artists that name b
CreditsAfterFirst(k, b) ==
    {p \in 2..Len(songs[k].all_artists) : songs[k].all_artists[p] = b}

\* the explicit evidence for {a, b}: credits of b on a's songs and of a on b's songs
CreditEvidence(a, b) ==
    Cardinality(UNION {{<<k, p>> : p \in CreditsAfterFirst(k, b)} : k \in SongsOf(a)})
    + Cardinality(UNION {{<<k, p>> : p \in CreditsAfterFirst(k, a)} : k \in SongsOf(b)})

\* the songs that credit both a and b
CoCreditSongs(a, b) ==
    {k \in SongIdx : in_list(a, songs[k].all_artists) /\ in_list(b, songs[k].all_artists)}

\* C3: in the graph either builder returns, the source and the target of every
\* link are ids of nodes of that graph (no dangling edges).
C3_NoDanglingEdges ==
    Built => \A i \in LinkIdx :
                 /\ graph.links[i].source \in NodeIdSet
                 /\ graph.links[i].target \in NodeIdSet

\* a built graph with a link, from songs one of which credits an artist that
\* has no node of its own
C3_Witness ==
    /\ Built
    /\ builder = "songs"
    /\ graph.links # <<>>
    /\ \E k \in SongIdx : \E p \in 2..Len(songs[k].all_artists) :
           songs[k].all_artists[p] \notin NodeIdSet

\* C4: one build emits at most one link per unordered pair of artists: no two
\* links join the same pair, in the same or in opposite directions.
C4_OneLinkPerPair ==
    Built => \A i, j \in LinkIdx :
                 i # j => {graph.links[i].source, graph.links[i].target}
                              # {graph.links[j].source, graph.links[j].target}

\* a build whose songs credit a pair in both directions (B on a song of A, A on
\* a song of B) and that linked the pair
C4_Witness ==
    /\ Built
    /\ \E a, b \in NodeIdSet :
           /\ a # b
           /\ \E k \in SongsOf(a) : CreditsAfterFirst(k, b) # {}
           /\ \E k \in SongsOf(b) : CreditsAfterFirst(k, a) # {}
           /\ LinksBetween(a, b) # {}

\* the two observations of the scenario: title X by A and title Y by B, each
\* crediting both A and B
C5_Scenario ==
    /\ Len(songs) = 2
    /\ songs[1].title = tx /\ songs[1].artist = nA
    /\ songs[2].title = ty /\ songs[2].artist = nB
    /\ \A k \in 1..2 : {songs[k].all_artists[p] : p \in 1..Len(songs[k].all_artists)}
                           = {nA, nB}

\* C5: a build on the scenario's two observations yields nodes A and B with
\* song_count 1 each and exactly one edge, between A and B, of weight 2 and type
\* 'collaboration'.
C5_ScenarioWeightTwo ==
    (Built /\ C5_Scenario) =>
        /\ NodeIdSet = {nA, nB}
        /\ \A i \in NodeIdx : graph.nodes[i].song_count = 1
        /\ Len(graph.links) = 1
        /\ {graph.links[1].source, graph.links[1].target} = {nA, nB}
        /\ graph.links[1].weight = 2
        /\ graph.links[1].type = "collaboration"

\* C6: build_graph_from_songs adds exactly 1 to a pair's weight for every song
\* that lists both artists in all_artists, whichever of them is the song's
\* primary artist: the weight less the title evidence is the number of such songs.
C6_EveryCoCreditedPairCounts ==
    (Built /\ builder = "songs") =>
        \A a, b \in NodeIdSet :
            a # b => PairWeight(a, b) - TextEvidence(a, b)
                         = Cardinality(CoCreditSongs(a, b))

\* C7: in build_graph_from_spotify the weight of the edge between A and B is the
\* number of songs that co-credit A and B, over the songs of both artists.
C7_SpotifyWeightCountsBoth ==
    (Built /\ builder = "spotify") =>
        \A i \in LinkIdx :
            LET a == graph.links[i].source
                b == graph.links[i].target
            IN  a # b => graph.links[i].weight = Cardinality(CoCreditSongs(a, b))

\* C8: in build_graph_from_songs the weight of a pair of distinct artists is its
\* explicit co-credit count plus its title evidence (A's songs whose lowercased
\* title contains B's lowercased name, plus B's that contain A's); a pair whose
\* total is 0 has no link; every link has weight >= 1 and type 'collaboration'.
C8_TextEvidenceAdded ==
    (Built /\ builder = "songs") =>
        /\ \A a, b \in NodeIdSet :
               a # b =>
                   /\ PairWeight(a, b) = CreditEvidence(a, b) + TextEvidence(a, b)
                   /\ (LinksBetween(a, b) = {}
                          <=> CreditEvidence(a, b) + TextEvidence(a, b) = 0)
        /\ \A i \in LinkIdx :
               graph.links[i].weight >= 1 /\ graph.links[i].type = "collaboration"

\* a pair linked on both kinds of evidence, whose title evidence is found only
\* because both the title and the name are lowercased
C8_Witness ==
    /\ Built
    /\ builder = "songs"
    /\ \E a, b \in NodeIdSet :
           /\ a # b
           /\ CreditEvidence(a, b) > 0
           /\ \E k \in SongsOf(a) :
                  /\ contains(lower(b), lower(songs[k].title))
                  /\ ~contains(lower(b), songs[k].title)
                  /\ ~contains(b, lower(songs[k].title))
           /\ PairWeight(a, b) > 1

\* the largest song_count of the graph's nodes
MaxSongCount ==
    CHOOSE m \in {graph.nodes[i].song_count : i \in NodeIdx} :
        \A i \in NodeIdx : graph.nodes[i].song_count <= m

\* C9: every node has importance = song_count / (largest song_count), which lies
\* in [0,1] and is 1 for the nodes with the largest song_count; with no artists
\* the maximum is 1 and nothing is divided.
C9_ImportanceNormalised ==
    Built =>
        /\ max_songs >= 1
        /\ graph.nodes = <<>> => max_songs = 1
        /\ \A i \in NodeIdx :
               LET n == graph.nodes[i]
               IN  /\ n.importance.num = n.song_count
                   /\ n.importance.den = MaxSongCount
                   /\ n.importance.den = max_songs
                   /\ 0 <= n.importance.num /\ n.importance.num <= n.importance.den
                   /\ (n.song_count = MaxSongCount
                          => n.importance.num = n.importance.den)

\* a graph whose first node does not have the most songs, so that its
\* importance is below 1
C9_Witness ==
    /\ Built
    /\ Len(graph.nodes) >= 2
    /\ graph.nodes[1].importance.num < graph.nodes[1].importance.den
    /\ \E i \in NodeIdx : graph.nodes[i].importance.num = graph.nodes[i].importance.den

\* the titles a list holds
Titles(l) == {l[k] : k \in 1..Len(l)}

\* C10: song_count is the number of distinct titles among the artist's
\* observations, and the songs list holds each title at most once, in first-seen
\* order, cut to the cap while song_count stays the count before the cut.
C10_DistinctTitles ==
    Built =>
        \A i \in NodeIdx :
            LET n == graph.nodes[i]
                own == {songs[k].title : k \in SongsOf(n.id)}
            IN  /\ n.song_count = Cardinality(own)
                /\ Cardinality(Titles(n.songs)) = Len(n.songs)
                /\ Len(n.songs) = (IF n.song_count < SONGS_LIMIT THEN n.song_count
                                   ELSE SONGS_LIMIT)

----------------------------------------------------------------------------
(* Properties of the genre pipeline *)

SnapIdx == 1..Len(graph_data.nodes)

\* the genre node i had when the last function read the snapshot, and has now
GenreBefore(i) == loaded.nodes[i].genre

GenreNow(i) == graph_data.nodes[i].genre

\* the function that wrote the snapshot last
LastWasAssign == gpc = "infer" /\ pass = 0

LastWasInfer == pass >= 1 /\ gpc \in {"infer", "fallback"}

LastWasFallback == gpc = "done"

\* node i's connections, as the snapshot stands, carry a strong majority for a
\* label other than the node's own
MajorityAgainst(i) ==
    LET nodes == graph_data.nodes
        connections == build_connections(graph_data.links, <<>>)
        genre_counts == count_genres(dict_get(connections, nodes[i].id, <<>>), nodes, <<>>)
        top == top_entry(genre_counts)
    IN  /\ genre_counts # <<>>
        /\ top.key \notin {"K-Pop", nodes[i].genre}
        /\ strong_majority(top.val, sum_counts(genre_counts), 1)

\* the step leaves every node whose genre is not 'Other' with its genre
KeepsLabels ==
    \A i \in SnapIdx :
        graph_data.nodes[i].genre # "Other"
            => graph_data'.nodes[i].genre = graph_data.nodes[i].genre

\* the step replaces no genre that is not 'Other', unless it is the first run's
\* assign_genres writing the label its lookup gives the node's name
OverwritesOnlyByLookup ==
    \A i \in SnapIdx :
        (graph_data.nodes[i].genre # "Other"
            /\ graph_data'.nodes[i].genre # graph_data.nodes[i].genre)
        => /\ gpc = "assign"
           /\ run = 1
           /\ lookup_genre(graph_data.nodes[i].name).stage # 0
           /\ graph_data'.nodes[i].genre = lookup_genre(graph_data.nodes[i].name).genre

\* C1: a pass of infer_genres_from_connections or of assign_fallback_genre leaves
\* every node whose genre is not 'Other' with the genre it had: only nodes
\* labelled 'Other' are relabelled.
C1_InferenceMonotonic ==
    [][(gpc \in {"infer", "fallback"}) => KeepsLabels]_vars

\* an inference pass has promoted a node while a labelled node, whose connections
\* carry a strong majority for another label, kept its own
C1_Witness ==
    /\ LastWasInfer
    /\ \E i \in SnapIdx : GenreBefore(i) = "Other" /\ GenreNow(i) # "Other"
    /\ \E i \in SnapIdx :
           GenreBefore(i) # "Other" /\ GenreNow(i) = GenreBefore(i) /\ MajorityAgainst(i)

\* C2 as stated: over the whole pipeline, re-runs included, no step replaces a
\* genre that is not 'Other' (the only transition is from 'Other' to a label).
C2_OnlyFromOther == [][KeepsLabels]_vars

\* C2 amended: a genre that is not 'Other' is replaced only by assign_genres in the
\* first run of the pipeline, and then by the label the lookup gives the node's
\* name; the inference passes, the fallback and a re-run on the snapshot the
\* pipeline wrote replace none.
C2_OnlyLookupOverwrites == [][OverwritesOnlyByLookup]_vars

\* the pipeline has been run again on a snapshot in which, in the first run,
\* assign_genres had replaced a label that was not 'Other', and in which a
\* labelled node that no stage of the lookup matches kept its label
C2_Witness ==
    /\ run = 2
    /\ LastWasAssign
    /\ \E i \in SnapIdx :
           /\ lookup_genre(graph_data.nodes[i].name).stage # 0
           /\ GenreNow(i) = "Dubstep/Bass"
    /\ \E i \in SnapIdx :
           /\ lookup_genre(graph_data.nodes[i].name).stage = 0
           /\ GenreNow(i) \notin {"Other", "Electronic"}

----------------------------------------------------------------------------
(* Properties of the genre lookup *)

\* stage k of the lookup, taken alone, matches the name
StageHits(k, name) ==
    LET name_lower == lower(name)
    IN  CASE k = 1 -> \E i \in 1..Len(ARTIST_GENRES) : ARTIST_GENRES[i].key = name
          [] k = 2 -> \E i \in 1..Len(ARTIST_GENRES) :
                          lower(ARTIST_GENRES[i].key) = name_lower
          [] k = 3 -> \E i \in 1..Len(ARTIST_GENRES) :
                          \/ contains(lower(ARTIST_GENRES[i].key), name_lower)
                          \/ contains(name_lower, lower(ARTIST_GENRES[i].key))
          [] k = 4 -> \E i \in 1..Len(GENRE_PATTERNS) :
                          re_search(GENRE_PATTERNS[i].words, name_lower)

\* the genres stage k, taken alone, gives the name: that of its first entry
\* that matches
StageGenre(k, name) ==
    LET name_lower == lower(name)
        T == IF k = 4 THEN GENRE_PATTERNS ELSE ARTIST_GENRES
        Hit(i) == CASE k = 1 -> T[i].key = name
                    [] k = 2 -> lower(T[i].key) = name_lower
                    [] k = 3 -> \/ contains(lower(T[i].key), name_lower)
                                \/ contains(name_lower, lower(T[i].key))
                    [] k = 4 -> re_search(T[i].words, name_lower)
        first == CHOOSE i \in 1..Len(T) : Hit(i) /\ \A j \in 1..(i - 1) : ~Hit(j)
    IN  IF k = 4 THEN T[first].genre ELSE T[first].val

\* the strictest stage that matches the name, 0 when none does
FirstStage(name) ==
    IF \E k \in 1..4 : StageHits(k, name)
    THEN CHOOSE k \in 1..4 : StageHits(k, name) /\ \A j \in 1..(k - 1) : ~StageHits(j, name)
    ELSE 0

\* C11: after assign_genres, a node whose name some stage of the lookup matches
\* carries the genre of the strictest stage that matches it (exact, then
\* case-insensitive, then partial, then pattern), whatever the looser stages
\* would give; 'Seven Lions' is decided by stage 1, 'seven lions' by stage 2 and
\* 'DJ Seven Lions Remix' by stage 3, all three as 'Melodic Bass'.
C11_StrictestStageDecides ==
    LastWasAssign =>
        \A i \in SnapIdx :
            LET name == graph_data.nodes[i].name
                k == FirstStage(name)
            IN  /\ k # 0 => GenreNow(i) = StageGenre(k, name)
                /\ k = 0 => GenreNow(i) = GenreBefore(i)
                /\ name = nSevenLions => k = 1 /\ GenreNow(i) = "Melodic Bass"
                /\ name = nSevenLionsLower => k = 2 /\ GenreNow(i) = "Melodic Bass"
                /\ name = nSevenLionsRemix => k = 3 /\ GenreNow(i) = "Melodic Bass"

\* assign_genres has labelled a name that stage 2 and stage 3 give different
\* genres, and a name that stage 3 and stage 4 give different genres
C11_Witness ==
    /\ LastWasAssign
    /\ \E i \in SnapIdx :
           LET name == graph_data.nodes[i].name
           IN  /\ FirstStage(name) = 2
               /\ StageGenre(3, name) # StageGenre(2, name)
               /\ GenreBefore(i) # GenreNow(i)
    /\ \E i \in SnapIdx :
           LET name == graph_data.nodes[i].name
           IN  /\ FirstStage(name) = 3
               /\ StageHits(4, name)
               /\ StageGenre(4, name) # StageGenre(3, name)
               /\ GenreBefore(i) # GenreNow(i)

----------------------------------------------------------------------------
(* Properties of one inference pass *)

\* the labels the snapshot's nodes carry or carried
LabelsSeen ==
    {graph_data.nodes[j].genre : j \in SnapIdx} \cup {loaded.nodes[j].genre : j \in SnapIdx}

\* the genre of the node with the given id when the last pass visited node i:
\* the nodes before i had been visited, the others not yet; an id that is no
\* node has none
GenreAtVisit(i, id) ==
    IF \E j \in SnapIdx : graph_data.nodes[j].id = id
    THEN LET j == CHOOSE j \in SnapIdx : graph_data.nodes[j].id = id
         IN  IF j < i THEN GenreNow(j) ELSE GenreBefore(j)
    ELSE "Other"

\* the neighbour entries of node i that carried label L when the last pass
\* visited it: one per link end opposite to the node, over links in both
\* directions
NeighbourEntries(i, L) ==
    LET id == graph_data.nodes[i].id
        links == graph_data.links
    IN  Cardinality({k \in 1..Len(links) :
                        links[k].source = id /\ GenreAtVisit(i, links[k].target) = L})
        + Cardinality({k \in 1..Len(links) :
                        links[k].target = id /\ GenreAtVisit(i, links[k].source) = L})

\* total of a function over a finite set of labels
RECURSIVE SumOver(_, _, _)
SumOver(S, i, done) ==
    IF S = done THEN 0
    ELSE LET L == CHOOSE L \in S \ done : TRUE
         IN  NeighbourEntries(i, L) + SumOver(S, i, done \cup {L})

\* the neighbour entries of node i that carried a label other than 'Other'
LabelledEntries(i) == SumOver(LabelsSeen \ {"Other"}, i, {})

\* L qualifies for node i: it is the most frequent label of the neighbour
\* entries, it is not 'K-Pop', it is on 3 entries or more and on more than 0.6
\* of the labelled entries
Qualifies(i, L) ==
    /\ L \notin {"Other", "K-Pop"}
    /\ \A L2 \in LabelsSeen \ {"Other"} : NeighbourEntries(i, L2) <= NeighbourEntries(i, L)
    /\ NeighbourEntries(i, L) >= 3
    /\ 5 * NeighbourEntries(i, L) > 3 * LabelledEntries(i)

\* C12: in one pass of infer_genres_from_connections a node labelled 'Other' is
\* promoted to L if and only if L is the most frequent label of its labelled
\* neighbour entries, is not 'K-Pop', is on at least 3 entries and on strictly
\* more than 0.6 of them; 3 'Dubstep/Bass' and 1 'Trance' promote to
\* 'Dubstep/Bass', 3 of 5 entries (exactly 0.6) do not promote.
C12_PromotedIffStrongMajority ==
    LastWasInfer =>
        \A i \in SnapIdx :
            GenreBefore(i) = "Other" =>
                /\ \A L \in LabelsSeen \ {"Other"} : GenreNow(i) = L <=> Qualifies(i, L)
                /\ (NeighbourEntries(i, "Dubstep/Bass") = 3
                        /\ NeighbourEntries(i, "Trance") = 1 /\ LabelledEntries(i) = 4)
                    => GenreNow(i) = "Dubstep/Bass"
                /\ (\E L \in LabelsSeen \ {"Other"} : NeighbourEntries(i, L) = 3)
                        /\ LabelledEntries(i) = 5
                    => GenreNow(i) = "Other"

\* a pass has promoted a node with 3 'Dubstep/Bass' entries and 1 'Trance' entry
C12_Witness ==
    /\ LastWasInfer
    /\ \E i \in SnapIdx :
           /\ GenreBefore(i) = "Other"
           /\ NeighbourEntries(i, "Dubstep/Bass") = 3
           /\ NeighbourEntries(i, "Trance") = 1
           /\ LabelledEntries(i) = 4
           /\ GenreNow(i) = "Dubstep/Bass"

\* L qualifies for node i under a threshold of k connections
QualifiesWith(i, L, k) ==
    /\ L \notin {"Other", "K-Pop"}
    /\ \A L2 \in LabelsSeen \ {"Other"} : NeighbourEntries(i, L2) <= NeighbourEntries(i, L)
    /\ NeighbourEntries(i, L) >= k
    /\ 5 * NeighbourEntries(i, L) > 3 * LabelledEntries(i)

\* C13: the pass promotes an 'Other' node whose majority label (not 'K-Pop') has
\* a count of at least min_connections and a share above 0.6; the pipeline
\* passes min_connections=1, so a node with a single labelled neighbour is
\* promoted to that neighbour's label.
C13_MinConnectionsApplied ==
    LastWasInfer =>
        \A i \in SnapIdx : \A L \in LabelsSeen :
            (GenreBefore(i) = "Other" /\ QualifiesWith(i, L, MAIN_MIN_CONNECTIONS))
                => GenreNow(i) = L

----------------------------------------------------------------------------
(* Properties of the passes on 'K-Pop' *)

\* the last pass was an inference pass or the fallback
LastWasPass == LastWasInfer \/ LastWasFallback

\* 'K-Pop' was the most frequent label of node i's neighbour entries when the
\* last pass visited it
KPopMajority(i) ==
    /\ NeighbourEntries(i, "K-Pop") >= 1
    /\ \A L \in LabelsSeen \ {"Other", "K-Pop"} :
           NeighbourEntries(i, L) < NeighbourEntries(i, "K-Pop")

\* C14: no inference pass and no fallback pass gives a node the label 'K-Pop';
\* an inference pass leaves a node 'Other' when 'K-Pop' is the majority label of
\* its neighbour entries; a node labelled 'Other' whose only labelled neighbour
\* entries are 2 'K-Pop' entries is still 'Other' after an inference pass and
\* after the fallback.
C14_NeverInfersKPop ==
    LastWasPass =>
        \A i \in SnapIdx :
            /\ GenreNow(i) = "K-Pop" => GenreBefore(i) = "K-Pop"
            /\ (LastWasInfer /\ GenreBefore(i) = "Other" /\ KPopMajority(i))
                   => GenreNow(i) = "Other"
            /\ (GenreBefore(i) = "Other" /\ NeighbourEntries(i, "K-Pop") = 2
                    /\ LabelledEntries(i) = 2)
                   => GenreNow(i) = "Other"

\* the pipeline has ended with a node still 'Other' that has 3 neighbours, all
\* 'K-Pop', and with a node still 'Other' that has 2 neighbours, both 'K-Pop'
C14_Witness ==
    /\ LastWasFallback
    /\ \E i \in SnapIdx :
           /\ GenreNow(i) = "Other"
           /\ NeighbourEntries(i, "K-Pop") = 3
           /\ LabelledEntries(i) = 3
    /\ \E i \in SnapIdx :
           /\ GenreNow(i) = "Other"
           /\ NeighbourEntries(i, "K-Pop") = 2
           /\ LabelledEntries(i) = 2

----------------------------------------------------------------------------
(* Properties of the fallback *)

\* the genre of the node with the given id when the last pass started
GenreAtStart(id) ==
    IF \E j \in SnapIdx : loaded.nodes[j].id = id
    THEN GenreBefore(CHOOSE j \in SnapIdx : loaded.nodes[j].id = id)
    ELSE "Other"

\* the neighbour entries of node i whose genre was in the set S when the last
\* pass started
EntriesAtStart(i, S) ==
    LET id == loaded.nodes[i].id
        links == loaded.links
    IN  Cardinality({k \in 1..Len(links) :
                        links[k].source = id /\ GenreAtStart(links[k].target) \in S})
        + Cardinality({k \in 1..Len(links) :
                        links[k].target = id /\ GenreAtStart(links[k].source) \in S})

\* C15: after assign_fallback_genre every node that was 'Other' and had a
\* neighbour with a label of the EDM family of GENRE_FAMILIES ('Electronic' and
\* 'Electro Soul' included) is 'Electronic', and every node that was 'Other'
\* and had no such neighbour is still 'Other'.
C15_FallbackFromEdmFamily ==
    LastWasFallback =>
        \A i \in SnapIdx :
            GenreBefore(i) = "Other" =>
                IF EntriesAtStart(i, GENRE_FAMILIES["EDM"]) >= 1
                THEN GenreNow(i) = "Electronic"
                ELSE GenreNow(i) = "Other"

----------------------------------------------------------------------------
(* Properties of inference on the genre families *)

\* the genres that share a family of GENRE_FAMILIES with L
SameFamily(L) ==
    UNION {GENRE_FAMILIES[f] : f \in {f \in DOMAIN GENRE_FAMILIES : L \in GENRE_FAMILIES[f]}}

\* the neighbour entries of node i that carried a label of the set S when the
\* last pass visited it
NeighbourEntriesIn(i, S) == SumOver(S \cap (LabelsSeen \ {"Other"}), i, {})

\* the last pass promoted node i
Promoted(i) == LastWasInfer /\ GenreBefore(i) = "Other" /\ GenreNow(i) # "Other"

\* C16: when infer_genres_from_connections promotes a node to L, more than 60%
\* of the node's labelled neighbour entries carry a label of L's family of
\* GENRE_FAMILIES, and no other family has more than half of them.
C16_FamilyContainment ==
    \A i \in SnapIdx :
        Promoted(i) =>
            LET L == GenreNow(i)
            IN  /\ 5 * NeighbourEntriesIn(i, SameFamily(L)) > 3 * LabelledEntries(i)
                /\ \A f \in DOMAIN GENRE_FAMILIES :
                       L \notin GENRE_FAMILIES[f]
                           => 2 * NeighbourEntriesIn(i, GENRE_FAMILIES[f]) <= LabelledEntries(i)

\* a pass has promoted a node that has a neighbour entry of another family than
\* that of the label it got
C16_Witness ==
    \E i \in SnapIdx :
        /\ Promoted(i)
        /\ NeighbourEntriesIn(i, SameFamily(GenreNow(i))) < LabelledEntries(i)

----------------------------------------------------------------------------
(* Properties of the sequence of inference passes *)

\* the number of nodes labelled 'Other' in a node list
OtherCount(nodes) == Cardinality({i \in 1..Len(nodes) : nodes[i].genre = "Other"})

\* C17: the number of 'Other' nodes does not grow from one pass to the next,
\* and a pass after the first counts the labels the passes before it wrote: a
\* node still 'Other' whose neighbour entries, as they stand in that pass, give
\* a label a strong majority is promoted to it.
C17_LabelsPropagate ==
    LastWasPass =>
        /\ OtherCount(graph_data.nodes) <= OtherCount(loaded.nodes)
        /\ (LastWasInfer /\ pass >= 2) =>
               \A i \in SnapIdx : \A L \in LabelsSeen :
                   (GenreBefore(i) = "Other" /\ Qualifies(i, L)) => GenreNow(i) = L

\* the second pass has promoted a node that the first pass had left 'Other',
\* on the label of a neighbour that the first pass had promoted after it
C17_Witness ==
    /\ LastWasInfer
    /\ pass = 2
    /\ \E i \in SnapIdx :
           /\ GenreBefore(i) = "Other"
           /\ GenreNow(i) # "Other"
           /\ NeighbourEntries(i, GenreNow(i)) = 3
           /\ \E j \in SnapIdx : j > i /\ LookupOfName[graph_data.nodes[j].name].stage = 0
                                       /\ GenreNow(j) = GenreNow(i)

----------------------------------------------------------------------------
(* Properties of the genres of a built graph *)

\* the labels of GENRE_FAMILIES, as the strings the builders write into nodes
family_labels ==
    {
      <<77, 101, 108, 111, 100, 105, 99, 32, 66, 97, 115, 115>>,  \* 'Melodic Bass'
      <<84, 114, 97, 110, 99, 101>>,  \* 'Trance'
      <<85, 75, 32, 72, 111, 117, 115, 101>>,  \* 'UK House'
      <<66, 97, 115, 115, 32, 72, 111, 117, 115, 101>>,  \* 'Bass House'
      <<68, 114, 117, 109, 32, 38, 32, 66, 97, 115, 115>>,  \* 'Drum & Bass'
      <<80, 111, 112, 47, 69, 68, 77>>,  \* 'Pop/EDM'
      <<72, 111, 117, 115, 101>>,  \* 'House'
      <<69, 108, 101, 99, 116, 114, 111, 110, 105, 99>>,  \* 'Electronic'
      <<84, 114, 111, 112, 105, 99, 97, 108, 32, 72, 111, 117, 115, 101>>,  \* 'Tropical House'
      <<77, 105, 100, 116, 101, 109, 112, 111, 32, 66, 97, 115, 115>>,  \* 'Midtempo Bass'
      <<84, 101, 99, 104, 32, 72, 111, 117, 115, 101>>,  \* 'Tech House'
      <<69, 108, 101, 99, 116, 114, 111, 32, 72, 111, 117, 115, 101>>,  \* 'Electro House'
      <<80, 114, 111, 103, 114, 101, 115, 115, 105, 118, 101, 32, 72, 111, 117, 115, 101>>,  \* 'Progressive House'
      <<68, 117, 98, 115, 116, 101, 112, 47, 66, 97, 115, 115>>,  \* 'Dubstep/Bass'
      <<69, 108, 101, 99, 116, 114, 111, 110, 105, 99, 47, 73, 110, 100, 105, 101>>,  \* 'Electronic/Indie'
      <<69, 108, 101, 99, 116, 114, 111, 32, 83, 111, 117, 108>>,  \* 'Electro Soul'
      <<84, 114, 97, 112, 47, 66, 97, 115, 115>>,  \* 'Trap/Bass'
      <<70, 117, 116, 117, 114, 101, 32, 66, 97, 115, 115>>,  \* 'Future Bass'
      <<75, 45, 80, 111, 112>>,  \* 'K-Pop'
      <<82, 38, 66>>,  \* 'R&B'
      <<72, 105, 112, 45, 72, 111, 112>>,  \* 'Hip-Hop'
      <<80, 111, 112>>,  \* 'Pop'
      <<82, 111, 99, 107>>,  \* 'Rock'
      <<67, 108, 97, 115, 115, 105, 99, 97, 108>>,  \* 'Classical'
      <<67, 105, 110, 101, 109, 97, 116, 105, 99>>  \* 'Cinematic'
    }

\* the labels fetch_genre_from_lastfm maps a Last.fm tag to
tag_labels == {tag_map[k].val : k \in 1..Len(tag_map)}

\* the genre labels the code names: the families' and the tag map's
Taxonomy == family_labels \cup tag_labels

\* C18: every node of a graph that build_graph_from_songs or the Spotify
\* library endpoint returned has a genre of the taxonomy or 'Other'; a lookup
\* that failed or mapped no tag leaves 'Other'.
C18_GenreInTaxonomy ==
    Built => \A i \in NodeIdx : graph.nodes[i].genre \in Taxonomy \cup {gOther}

----------------------------------------------------------------------------
(* Properties of the builders on malformed and on empty input *)

\* an observation that has a title and at least one artist
WellFormed(row) == row.title # <<>> /\ row.artists # <<>>

\* C19: an observation without title or without artist is skipped by the
\* parsers and by build_graph_from_songs: the songs are those of the well-formed
\* observations, one each and in their order, and no node stands for a missing
\* artist.
C19_MalformedSkipped ==
    (bpc # "input" /\ builder # "spotify") =>
        LET remaining == SelectSeq(rows, WellFormed)
        IN  /\ Len(songs) = Len(remaining)
            /\ \A k \in SongIdx : songs[k].title = remaining[k].title
            /\ \A i \in NodeIdx : graph.nodes[i].id \notin {<<>>, UnknownArtist}

\* C20: an empty set of observations is a valid result: build_graph_from_songs
\* on no song returns a graph without nodes and links whose stats count 0
\* artists, and a request whose source yields no qualifying record is answered
\* with that empty graph, not with an error.
C20_EmptyIsValid ==
    (bpc # "input" /\ songs = <<>>) =>
        /\ bpc = "built"
        /\ status \in {0, 200}
        /\ graph.nodes = <<>>
        /\ graph.links = <<>>
        /\ graph.stats.total_artists = 0

----------------------------------------------------------------------------
(* Properties of the optional enrichments *)

\* the Last.fm request for an artist raises, times out or is answered with a
\* status other than 200
LastfmFails(artist_name) ==
    lastfm_reply(artist_name).raises \/ lastfm_reply(artist_name).status_code # 200

\* the nodes of the built graph whose genre only Last.fm could have given and
\* whose Last.fm request failed
FailedFetches ==
    {i \in NodeIdx : /\ get_artist_genre(graph.nodes[i].name, genre_map) = None
                     /\ lastfm.api_key
                     /\ LastfmFails(graph.nodes[i].name)}

\* a request for /api/graph that finds music_data.json and no snapshot, and
\* whose authentication or related-artist expansion raises
RelatedRaises ==
    /\ bpc = "input"
    /\ bpc' = "graph"
    /\ ytmusic.graph_file = NoFile
    /\ ytmusic.music_data # NoFile
    /\ \/ ytmusic.authenticate = "raises"
       \/ ytmusic.authenticate = "yes" /\ ytmusic.related = "raises"

----------------------------------------------------------------------------
(* Properties of the Spotify library request *)

\* the offset of the last page request of the call
LastRequested == fetch.requested[Len(fetch.requested)]

\* the call of get_all_saved_tracks has ended on a page request that failed
\* (a status other than 200, or an exception)
PageFetchFailed ==
    /\ fetch.pc \in {"returned", "raised", "done"}
    /\ fetch.requested # <<>>
    /\ page_response(LastRequested).kind \in {"error", "raises"}

\* C22: a request for /api/spotify/library in which the fetch of a page of
\* saved tracks failed, on whichever page, is answered with an error and never
\* with a graph of the pages fetched before.
C22_PageFailureFailsRequest ==
    (answer.endpoint = "library" /\ fetch.caller = "library" /\ fetch.pc = "done"
        /\ PageFetchFailed) =>
        status >= 400

----------------------------------------------------------------------------
(* Properties of overlapping runs on the snapshot file *)

\* run q has written the file and no run has written it after q
WroteLast(q) == runs[q].wrote > 0 /\ \A p \in Runs : runs[p].wrote <= runs[q].wrote

\* run p has written the file before run q did
WroteBefore(p, q) == runs[p].wrote > 0 /\ runs[p].wrote < runs[q].wrote

\* C23: writes of the snapshot are last-writer-wins.  When runs of a pass have
\* read and written the file, the file holds exactly the data of the run that
\* wrote last; a label an earlier writer wrote for a node that is 'Other' in the
\* data of the last writer is lost, the node is 'Other' in the file.
C23_LastWriterWins ==
    \A q \in Runs :
        WroteLast(q) =>
            /\ graph_data = runs[q].data
            /\ \A p \in Runs : \A i \in 1..Len(graph_data.nodes) :
                   (WroteBefore(p, q) /\ runs[p].data.nodes[i].genre # "Other"
                       /\ runs[q].data.nodes[i].genre = "Other") =>
                       graph_data.nodes[i].genre = "Other"

\* two runs have overlapped: the first writer gave a node a label, the last
\* writer wrote the node as 'Other', and so the file has it
C23_Witness ==
    \E p, q \in Runs :
        /\ WroteLast(q)
        /\ WroteBefore(p, q)
        /\ \E i \in 1..Len(graph_data.nodes) :
               /\ runs[p].data.nodes[i].genre # "Other"
               /\ runs[q].data.nodes[i].genre = "Other"
               /\ graph_data.nodes[i].genre = "Other"

----------------------------------------------------------------------------
(* Properties of rebuild_graph *)

\* the songs of a list that are the first of their title, in the order of the list
FirstOfTitle(ss) ==
    LET keep(k) == \A j \in 1..(k - 1) : ss[j].title # ss[k].title
        kept == {k \in 1..Len(ss) : keep(k)}
        nth(n) == CHOOSE k \in kept : Cardinality({j \in kept : j < k}) = n - 1
    IN  [n \in 1..Cardinality(kept) |-> ss[nth(n)]]

\* run r is rebuild_graph and writes the file in this step
RebuildWrites(r) ==
    runs[r].pc = "read" /\ runs[r].fn = "rebuild" /\ runs'[r].pc = "done"

\* what rebuild_graph may do to a node
RebuildFrame(old, new) ==
    LET from_music == FirstOfTitle(artist_songs(music_data.liked_songs, old.id))
    IN  /\ new.id = old.id
        /\ new.name = old.name
        /\ new.genre = old.genre
        /\ new.song_count = old.song_count
        /\ new.importance = old.importance
        /\ IF Len(from_music) > Len(old.songs)
           THEN new.songs = from_music
           ELSE new.songs = old.songs
        /\ Len(new.songs) >= Len(old.songs)

\* C24: rebuild_graph keeps the genres assigned before.  Of every node it
\* leaves id, name, genre, song_count and importance as they were, and it
\* leaves links and stats as they were; it replaces the songs of a node by the
\* list from the music data without repeated titles (the first of a title
\* stays, in order) when that list is longer than the node's, and only then, so
\* no list of songs gets shorter.
C24_RebuildPreservesGenres ==
    [][\A r \in Runs :
          RebuildWrites(r) =>
              LET old == runs[r].data
                  new == runs'[r].data
              IN  /\ Len(new.nodes) = Len(old.nodes)
                  /\ \A i \in 1..Len(old.nodes) : RebuildFrame(old.nodes[i], new.nodes[i])
                  /\ new.links = old.links
                  /\ new.stats = old.stats
                  /\ graph_data' = new]_vars

\* rebuild_graph has written a snapshot in which the songs of n1 are the two
\* titles of its three liked songs, n3 has kept its two songs against one
\* liked song, and n2 has a genre
C24_Witness ==
    \E r \in Runs :
        /\ runs[r].pc = "done"
        /\ runs[r].fn = "rebuild"
        /\ graph_data = runs[r].data
        /\ Len(artist_songs(music_data.liked_songs, "n1")) = 3
        /\ Len(graph_data.nodes[1].songs) = 2
        /\ Len(artist_songs(music_data.liked_songs, "n3")) = 1
        /\ Len(graph_data.nodes[3].songs) = 2
        /\ graph_data.nodes[2].genre # "Other"

----------------------------------------------------------------------------
(* Properties of the links of a built graph *)

\* C25: no link of a graph built by build_graph_from_songs or by
\* build_graph_from_spotify joins an artist to itself: source and target of
\* every link differ, also when the credits of a song name its primary artist
\* a second time.
C25_NoSelfLinks ==
    Built => \A k \in LinkIdx : graph.links[k].source # graph.links[k].target

----------------------------------------------------------------------------
(* Properties of the order of the nodes in an inference pass *)

\* the label the loop body gives node i when it is judged on the labels the
\* snapshot had when the pass read it
GenreFromStartLabels(i) ==
    inferred_genre(loaded.nodes, i, build_connections(loaded.links, <<>>),
                   MAIN_MIN_CONNECTIONS)

\* C26: every decision of one infer_genres_from_connections pass is taken on
\* the labels the snapshot had at the start of the pass, so the result does not
\* depend on the order of the nodes: after a pass every node has the label the
\* rule gives it from the start-of-pass labels, and a node promoted earlier in
\* the pass is no evidence for a node visited later.
C26_PassJudgesStartLabels ==
    LastWasInfer => \A i \in SnapIdx : GenreNow(i) = GenreFromStartLabels(i)

----------------------------------------------------------------------------
(* Properties of what the genre passes leave alone *)

\* run r writes the snapshot of an inference pass or of the fallback
GenrePassWrites(r) ==
    runs[r].pc = "read" /\ runs[r].fn \in {"infer", "fallback"} /\ runs'[r].pc = "done"

\* the snapshot with every link at weight 1
AtUnitWeight(d) ==
    [d EXCEPT !.links = [k \in 1..Len(d.links) |-> [d.links[k] EXCEPT !.weight = 1]]]

\* the genres of the nodes, in order
GenresOf(d) == [i \in 1..Len(d.nodes) |-> d.nodes[i].genre]

\* C27: infer_genres_from_connections and assign_fallback_genre change nothing
\* but the genre of nodes that were 'Other'.  The snapshot a pass writes has the
\* nodes of the snapshot it read, each equal to the old node in every field but
\* genre and equal in genre too when the old genre was not 'Other'; links
\* (source, target, weight, type) and stats are the old ones; and the genres
\* written are those the pass gives with every link at weight 1: the weights
\* play no part in the tally.
C27_PassesWriteGenreOnly ==
    [][\A r \in Runs :
          GenrePassWrites(r) =>
              LET old == runs[r].data
                  new == runs'[r].data
              IN  /\ Len(new.nodes) = Len(old.nodes)
                  /\ \A i \in 1..Len(old.nodes) :
                         /\ new.nodes[i] = [old.nodes[i] EXCEPT !.genre = new.nodes[i].genre]
                         /\ old.nodes[i].genre # "Other" => new.nodes[i] = old.nodes[i]
                  /\ new.links = old.links
                  /\ new.stats = old.stats
                  /\ graph_data' = new
                  /\ GenresOf(new) = GenresOf(pass_data(runs[r].fn, AtUnitWeight(old),
                                                        music_data))]_vars

\* an inference pass has written a snapshot in which a node the other run read
\* as 'Other' has a genre, a node with a genre has kept it, and a link has a
\* weight above 1; the other run has not written
C27_Witness ==
    \E r, q \in Runs :
        /\ runs[r].pc = "done" /\ runs[r].fn = "infer" /\ runs[r].wrote = 1
        /\ runs[q].pc = "read"
        /\ graph_data = runs[r].data
        /\ \E i \in 1..Len(graph_data.nodes) :
               runs[q].data.nodes[i].genre = "Other" /\ graph_data.nodes[i].genre # "Other"
        /\ \E k \in 1..Len(graph_data.links) : graph_data.links[k].weight > 1
        /\ graph_data.links = runs[q].data.links
        /\ graph_data.stats = runs[q].data.stats

----------------------------------------------------------------------------
(* Properties of the paging of get_all_saved_tracks *)

\* the page makes the loop go on: it is no error, has items and a 'next' link
GoesOn(page) == page.kind = "ok" /\ page.items # <<>> /\ page.next

\* C28: get_all_saved_tracks terminates.  The k-th page request of a call has
\* offset 50 * (k - 1); there are never more than ceil(max_tracks / 50) of
\* them, also when every page reports a 'next' page; every request but the last
\* was answered by a page with items and a 'next' link, so the call stops at
\* the first page that is an error, is empty or has no 'next'; and while the
\* loop runs the requests made are fewer than ceil(max_tracks / 50).
C28_PagingIsBounded ==
    LET requested == fetch.requested
        n == Len(requested)
    IN  /\ \A k \in 1..n : requested[k] = PAGE_LIMIT * (k - 1)
        /\ PAGE_LIMIT * n < fetch.max_tracks + PAGE_LIMIT
        /\ \A k \in 1..(n - 1) : GoesOn(page_response(requested[k]))
        /\ fetch.pc = "loop" =>
               /\ fetch.offset = PAGE_LIMIT * n
               /\ fetch.offset < fetch.max_tracks
               /\ n >= 1 => GoesOn(page_response(requested[n]))
        /\ (fetch.pc \in {"returned", "raised", "done"} /\ n >= 1) =>
               \/ ~GoesOn(page_response(requested[n]))
               \/ PAGE_LIMIT * n >= fetch.max_tracks

\* a call with max_tracks = 75 on an account whose every page has a 'next' link
\* has returned after 2 requests, and a library request (max_tracks = 1000) on
\* such an account after 20
C28_Witness ==
    /\ fetch.pc = "returned"
    /\ Len(fetch.requested) >= 2
    /\ GoesOn(page_response(fetch.requested[Len(fetch.requested)]))
    /\ \/ fetch.max_tracks = 75 /\ Len(fetch.requested) = 2
       \/ fetch.max_tracks = LIBRARY_MAX_TRACKS /\ Len(fetch.requested) = 20

----------------------------------------------------------------------------
(* Properties of the Spotify session *)

\* the session of the cookie the last request carried has a token stored
SessionStored == answer.cookie # 0 /\ dict_has(spotify_tokens, answer.cookie)

\* C29: the Spotify session protocol.  A status request and a library request
\* that carry the cookie of a session report it authenticated exactly when a
\* token is stored for it: after a successful callback both do (the library
\* request is accepted), after a disconnect of that session neither does, and
\* the library request is then answered 401.
C29_SessionProtocol ==
    answer.endpoint \in {"status", "library"} =>
        /\ answer.authenticated <=> SessionStored
        /\ (answer.endpoint = "library" /\ ~SessionStored) => status = 401

----------------------------------------------------------------------------
(* Properties of build_graph_from_songs on reordered observations *)

\* the content of a graph: its nodes as (id, song_count, importance) and its
\* links as (the unordered pair of ends, weight)
Content(g) ==
    [nodes |-> {<<g.nodes[i].id, g.nodes[i].song_count, g.nodes[i].importance>> :
                    i \in 1..Len(g.nodes)},
     links |-> {<<{g.links[k].source, g.links[k].target}, g.links[k].weight>> :
                    k \in 1..Len(g.links)}]

\* the song list in the order p
Reordered(ss, p) == [k \in 1..Len(ss) |-> ss[p[k]]]

\* C30: the content of the graph build_graph_from_songs builds does not depend
\* on the order of the songs: built from any reordering of the same songs, the
\* set of nodes with their song_count and importance and the set of links as
\* unordered pairs with their weights are those of the graph built.
C30_OrderOfSongsIsImmaterial ==
    (Built /\ builder = "songs") =>
        \A p \in Permutations(1..Len(songs)) :
            Content(build_graph_from_songs(Reordered(songs, p))) = Content(graph)

\* a graph is built from three songs of two artists, the first and the last by
\* different artists, one artist with two songs, and it has a link
C30_Witness ==
    /\ Built
    /\ builder = "songs"
    /\ Len(songs) = 3
    /\ songs[1].artist # songs[3].artist
    /\ Len(graph.nodes) = 2
    /\ max_songs = 2
    /\ graph.links # <<>>

====
